---------------------------- MODULE Spec2Model ----------------------------
(***************************************************************************)
(* A model of the datamatrix crate: Reed-Solomon error correction over      *)
(* GF(256), module placement, symbol selection, and the data encoder and   *)
(* decoder.  Bytes are integers in 0..255; Rust slices are TLA+ sequences  *)
(* (1-based), so the Rust index k is the TLA+ index k + 1.                 *)
(***************************************************************************)
EXTENDS Integers, Sequences, FiniteSets, TLC

VARIABLES
    size,        \* the SymbolSize the run works on
    rs_data,     \* the data codewords handed to encode_error
    sent,        \* data codewords followed by the error codewords
    received,    \* the codewords after transmission (and after decode)
    rs_result,   \* outcome of errorcode::decode
    rs_pc,       \* position of the Reed-Solomon run
    pl_data,     \* the codewords handed to MatrixMap::new_with_codewords
    pl_trav,     \* what IndexTraversal::run did: the visits, in order
    pl_map,      \* the MatrixMap
    pl_bitmap,   \* the Bitmap of the MatrixMap
    pl_report,   \* the ConversionReport of MatrixMap::try_from_bits
    pl_pc,       \* position of the placement run
    enc_args,    \* the arguments of the encoder run
    encoder,     \* the GenericDataEncoder
    enc_result,  \* what the encoder returned
    dec_result,  \* what the decoder returned
    enc_pc       \* position of the encoder run

rsVars == <<rs_data, sent, received, rs_result, rs_pc>>

plVars == <<pl_data, pl_trav, pl_map, pl_bitmap, pl_report, pl_pc>>

encVars == <<enc_args, encoder, enc_result, dec_result, enc_pc>>

vars == <<size, rs_data, sent, received, rs_result, rs_pc,
          pl_data, pl_trav, pl_map, pl_bitmap, pl_report, pl_pc,
          enc_args, encoder, enc_result, dec_result, enc_pc>>

\* no Reed-Solomon run
RSIdle ==
    /\ rs_data = <<>>
    /\ sent = <<>>
    /\ received = <<>>
    /\ rs_result = "none"
    /\ rs_pc = "idle"

\* no placement run
PlIdle ==
    /\ pl_data = <<>>
    /\ pl_trav = <<>>
    /\ pl_map = <<>>
    /\ pl_bitmap = <<>>
    /\ pl_report = <<>>
    /\ pl_pc = "idle"

\* no encoder run
EncIdle ==
    /\ enc_args = <<>>
    /\ encoder = <<>>
    /\ enc_result = <<>>
    /\ dec_result = <<>>
    /\ enc_pc = "idle"

-----------------------------------------------------------------------------
(* Loops and slices.  TLC evaluates definitions on demand, so a loop hands  *)
(* its state to the next round only once the state has been computed.       *)

Computed(v) == v = v

\* a sequence given as a function, as the tuple of its values
Vec(f) == SubSeq(f, 1, Len(f))

\* for i in lo..=hi { st = body(st, i) }, the rounds in ascending order
RECURSIVE ForLoop(_, _, _, _)
ForLoop(body(_, _), lo, hi, st) ==
    IF lo > hi THEN st
    ELSE IF lo = hi THEN body(st, lo)
    ELSE LET mid == (lo + hi) \div 2
             first == ForLoop(body, lo, mid, st)
         IN  IF Computed(first) THEN ForLoop(body, mid + 1, hi, first)
             ELSE first

\* the Rust slice s[a..=b] (indices from 0)
Slice(s, a, b) == SubSeq(s, a + 1, b + 1)

\* vec![x; n]
Repeat(x, n) == Vec([k \in 1..n |-> x])

\* s.iter().rev()
Rev(s) == Vec([k \in 1..Len(s) |-> s[Len(s) + 1 - k]])

SetMin(S) == CHOOSE x \in S : \A y \in S : x <= y

SetMax(S) == CHOOSE x \in S : \A y \in S : y <= x

-----------------------------------------------------------------------------
(* GF(256) arithmetic, errorcode/galois.rs *)

Byte == 0..255

RECURSIVE BitXor(_, _)
BitXor(a, b) ==
    IF a = 0 THEN b
    ELSE IF b = 0 THEN a
    ELSE ((a + b) % 2) + 2 * BitXor(a \div 2, b \div 2)

XorTable == [a \in Byte |-> [b \in Byte |-> BitXor(a, b)]]

\* impl Add<GF> for GF: self.0 ^ rhs.0
GFAdd(a, b) == XorTable[a][b]

\* impl Sub<GF> for GF: self + rhs
GFSub(a, b) == GFAdd(a, b)

\* impl Neg for GF
GFNeg(a) == a

\* compute_alog_log, one round of the loop: p *= 2; if p >= 256 { p ^= 0x12D }
alog_step(p) ==
    IF 2 * p >= 256 THEN BitXor(2 * p, 301) ELSE 2 * p

\* the values of p in the rounds i = 0, 1, ..., 254 of the loop
alog_rounds ==
    ForLoop(LAMBDA st, i : Append(st, alog_step(st[i])), 1, 254, <<1>>)

\* compute_alog_log: ANTI_LOG[i] is p in round i, that is x^i modulo 0x12D
ANTI_LOG == [i \in 0..254 |-> alog_rounds[i + 1]]

\* compute_alog_log: LOG[p] is the power i with ANTI_LOG[i] = p (LOG[0] stays 0)
LOG == [p \in Byte |->
          IF p = 0 THEN 0 ELSE CHOOSE i \in 0..254 : ANTI_LOG[i] = p]

\* impl Mul<GF> for GF
GFMul(a, b) ==
    IF a = 0 \/ b = 0 THEN 0
    ELSE ANTI_LOG[(LOG[a] + LOG[b]) % 255]

\* impl Div<GF> for GF; the caller guarantees rhs # 0 (assert_ne!)
GFDiv(a, b) ==
    IF a = 0 THEN 0
    ELSE LET i == LOG[a] - LOG[b]
         IN  ANTI_LOG[IF i < 0 THEN i + 255 ELSE i]

\* impl Mul<usize> for GF: n-fold addition
GFMulUsize(a, n) == a * (n % 2)

\* GF::primitive_powers(): 1, x, x^2, ... (cycling through ANTI_LOG)
primitive_power(k) == ANTI_LOG[k % 255]

\* iter::Sum for GF
GFSum(s) ==
    ForLoop(LAMBDA acc, k : GFAdd(acc, s[k]), 1, Len(s), 0)

-----------------------------------------------------------------------------
(* Symbol sizes, symbol_size.rs *)

\* SYMBOL_SIZES: every symbol size, in the order of impl Ord for SymbolSize
SYMBOL_SIZES ==
    <<
      "Square10", "Square12", "Rect8x18", "Square14",
      "Rect8x32", "Square16", "Rect12x26", "Square18",
      "Rect8x48", "Square20", "Rect12x36", "Rect8x64",
      "Square22", "Rect16x36", "Rect8x80", "Square24",
      "Rect8x96", "Rect12x64", "Square26", "Rect20x36",
      "Rect16x48", "Rect8x120", "Rect20x44", "Square32",
      "Rect16x64", "Rect8x144", "Rect12x88", "Rect26x40",
      "Rect22x48", "Rect24x48", "Rect20x64", "Square36",
      "Rect26x48", "Rect24x64", "Square40", "Rect26x64",
      "Square44", "Square48", "Square52", "Square64",
      "Square72", "Square80", "Square88", "Square96",
      "Square104", "Square120", "Square132", "Square144"
    >>

\* SymbolSize::num_data_codewords
num_data_codewords(s) ==
    CASE s = "Square10" -> 3
      [] s = "Square12" -> 5
      [] s = "Square14" -> 8
      [] s = "Square16" -> 12
      [] s = "Square18" -> 18
      [] s = "Square20" -> 22
      [] s = "Square22" -> 30
      [] s = "Square24" -> 36
      [] s = "Square26" -> 44
      [] s = "Square32" -> 62
      [] s = "Square36" -> 86
      [] s = "Square40" -> 114
      [] s = "Square44" -> 144
      [] s = "Square48" -> 174
      [] s = "Square52" -> 204
      [] s = "Square64" -> 280
      [] s = "Square72" -> 368
      [] s = "Square80" -> 456
      [] s = "Square88" -> 576
      [] s = "Square96" -> 696
      [] s = "Square104" -> 816
      [] s = "Square120" -> 1050
      [] s = "Square132" -> 1304
      [] s = "Square144" -> 1558
      [] s = "Rect8x18" -> 5
      [] s = "Rect8x32" -> 10
      [] s = "Rect12x26" -> 16
      [] s = "Rect12x36" -> 22
      [] s = "Rect16x36" -> 32
      [] s = "Rect16x48" -> 49
      [] s = "Rect8x48" -> 18
      [] s = "Rect8x64" -> 24
      [] s = "Rect8x80" -> 32
      [] s = "Rect8x96" -> 38
      [] s = "Rect8x120" -> 49
      [] s = "Rect8x144" -> 63
      [] s = "Rect12x64" -> 43
      [] s = "Rect12x88" -> 64
      [] s = "Rect16x64" -> 62
      [] s = "Rect20x36" -> 44
      [] s = "Rect20x44" -> 56
      [] s = "Rect20x64" -> 84
      [] s = "Rect22x48" -> 72
      [] s = "Rect24x48" -> 80
      [] s = "Rect24x64" -> 108
      [] s = "Rect26x40" -> 70
      [] s = "Rect26x48" -> 90
      [] s = "Rect26x64" -> 118

\* SymbolSize::is_dmre
is_dmre(s) ==
    s \in {
      "Rect8x48", "Rect8x64", "Rect8x80", "Rect8x96",
      "Rect8x120", "Rect8x144", "Rect12x64", "Rect12x88",
      "Rect16x64", "Rect20x36", "Rect20x44", "Rect20x64",
      "Rect22x48", "Rect24x48", "Rect24x64", "Rect26x40",
      "Rect26x48", "Rect26x64"
    }

\* SymbolSize::capacity: the most (digits) and the fewest (Base256 bytes)
\* input characters the symbol holds
capacity(s) ==
    CASE s = "Square10" -> [max |-> 6, min |-> 1]
      [] s = "Square12" -> [max |-> 10, min |-> 3]
      [] s = "Square14" -> [max |-> 16, min |-> 6]
      [] s = "Square16" -> [max |-> 24, min |-> 10]
      [] s = "Square18" -> [max |-> 36, min |-> 16]
      [] s = "Square20" -> [max |-> 44, min |-> 20]
      [] s = "Square22" -> [max |-> 60, min |-> 28]
      [] s = "Square24" -> [max |-> 72, min |-> 34]
      [] s = "Square26" -> [max |-> 88, min |-> 42]
      [] s = "Square32" -> [max |-> 124, min |-> 60]
      [] s = "Square36" -> [max |-> 172, min |-> 84]
      [] s = "Square40" -> [max |-> 228, min |-> 112]
      [] s = "Square44" -> [max |-> 288, min |-> 142]
      [] s = "Square48" -> [max |-> 348, min |-> 172]
      [] s = "Square52" -> [max |-> 408, min |-> 202]
      [] s = "Square64" -> [max |-> 560, min |-> 277]
      [] s = "Square72" -> [max |-> 736, min |-> 365]
      [] s = "Square80" -> [max |-> 912, min |-> 453]
      [] s = "Square88" -> [max |-> 1152, min |-> 573]
      [] s = "Square96" -> [max |-> 1392, min |-> 693]
      [] s = "Square104" -> [max |-> 1632, min |-> 813]
      [] s = "Square120" -> [max |-> 2100, min |-> 1047]
      [] s = "Square132" -> [max |-> 2608, min |-> 1301]
      [] s = "Square144" -> [max |-> 3116, min |-> 1555]
      [] s = "Rect8x18" -> [max |-> 10, min |-> 3]
      [] s = "Rect8x32" -> [max |-> 20, min |-> 8]
      [] s = "Rect12x26" -> [max |-> 32, min |-> 14]
      [] s = "Rect12x36" -> [max |-> 44, min |-> 20]
      [] s = "Rect16x36" -> [max |-> 64, min |-> 30]
      [] s = "Rect16x48" -> [max |-> 98, min |-> 47]
      [] s = "Rect8x48" -> [max |-> 36, min |-> 16]
      [] s = "Rect8x64" -> [max |-> 48, min |-> 22]
      [] s = "Rect8x80" -> [max |-> 64, min |-> 30]
      [] s = "Rect8x96" -> [max |-> 76, min |-> 36]
      [] s = "Rect8x120" -> [max |-> 98, min |-> 47]
      [] s = "Rect8x144" -> [max |-> 126, min |-> 61]
      [] s = "Rect12x64" -> [max |-> 86, min |-> 41]
      [] s = "Rect12x88" -> [max |-> 128, min |-> 62]
      [] s = "Rect16x64" -> [max |-> 124, min |-> 60]
      [] s = "Rect20x36" -> [max |-> 88, min |-> 42]
      [] s = "Rect20x44" -> [max |-> 112, min |-> 54]
      [] s = "Rect20x64" -> [max |-> 168, min |-> 82]
      [] s = "Rect22x48" -> [max |-> 144, min |-> 70]
      [] s = "Rect24x48" -> [max |-> 160, min |-> 78]
      [] s = "Rect24x64" -> [max |-> 216, min |-> 106]
      [] s = "Rect26x40" -> [max |-> 140, min |-> 68]
      [] s = "Rect26x48" -> [max |-> 180, min |-> 88]
      [] s = "Rect26x64" -> [max |-> 236, min |-> 116]

\* SymbolSize::block_setup
block_setup(s) ==
    CASE s = "Square10" ->
        [num_ecc_blocks |-> 1, num_ecc_per_block |-> 5, width |-> 10, height |-> 10,
         extra_horizontal_alignments |-> 0, extra_vertical_alignments |-> 0]
      [] s = "Square12" ->
        [num_ecc_blocks |-> 1, num_ecc_per_block |-> 7, width |-> 12, height |-> 12,
         extra_horizontal_alignments |-> 0, extra_vertical_alignments |-> 0]
      [] s = "Square14" ->
        [num_ecc_blocks |-> 1, num_ecc_per_block |-> 10, width |-> 14, height |-> 14,
         extra_horizontal_alignments |-> 0, extra_vertical_alignments |-> 0]
      [] s = "Square16" ->
        [num_ecc_blocks |-> 1, num_ecc_per_block |-> 12, width |-> 16, height |-> 16,
         extra_horizontal_alignments |-> 0, extra_vertical_alignments |-> 0]
      [] s = "Square18" ->
        [num_ecc_blocks |-> 1, num_ecc_per_block |-> 14, width |-> 18, height |-> 18,
         extra_horizontal_alignments |-> 0, extra_vertical_alignments |-> 0]
      [] s = "Square20" ->
        [num_ecc_blocks |-> 1, num_ecc_per_block |-> 18, width |-> 20, height |-> 20,
         extra_horizontal_alignments |-> 0, extra_vertical_alignments |-> 0]
      [] s = "Square22" ->
        [num_ecc_blocks |-> 1, num_ecc_per_block |-> 20, width |-> 22, height |-> 22,
         extra_horizontal_alignments |-> 0, extra_vertical_alignments |-> 0]
      [] s = "Square24" ->
        [num_ecc_blocks |-> 1, num_ecc_per_block |-> 24, width |-> 24, height |-> 24,
         extra_horizontal_alignments |-> 0, extra_vertical_alignments |-> 0]
      [] s = "Square26" ->
        [num_ecc_blocks |-> 1, num_ecc_per_block |-> 28, width |-> 26, height |-> 26,
         extra_horizontal_alignments |-> 0, extra_vertical_alignments |-> 0]
      [] s = "Square32" ->
        [num_ecc_blocks |-> 1, num_ecc_per_block |-> 36, width |-> 32, height |-> 32,
         extra_horizontal_alignments |-> 1, extra_vertical_alignments |-> 1]
      [] s = "Square36" ->
        [num_ecc_blocks |-> 1, num_ecc_per_block |-> 42, width |-> 36, height |-> 36,
         extra_horizontal_alignments |-> 1, extra_vertical_alignments |-> 1]
      [] s = "Square40" ->
        [num_ecc_blocks |-> 1, num_ecc_per_block |-> 48, width |-> 40, height |-> 40,
         extra_horizontal_alignments |-> 1, extra_vertical_alignments |-> 1]
      [] s = "Square44" ->
        [num_ecc_blocks |-> 1, num_ecc_per_block |-> 56, width |-> 44, height |-> 44,
         extra_horizontal_alignments |-> 1, extra_vertical_alignments |-> 1]
      [] s = "Square48" ->
        [num_ecc_blocks |-> 1, num_ecc_per_block |-> 68, width |-> 48, height |-> 48,
         extra_horizontal_alignments |-> 1, extra_vertical_alignments |-> 1]
      [] s = "Square52" ->
        [num_ecc_blocks |-> 2, num_ecc_per_block |-> 42, width |-> 52, height |-> 52,
         extra_horizontal_alignments |-> 1, extra_vertical_alignments |-> 1]
      [] s = "Square64" ->
        [num_ecc_blocks |-> 2, num_ecc_per_block |-> 56, width |-> 64, height |-> 64,
         extra_horizontal_alignments |-> 3, extra_vertical_alignments |-> 3]
      [] s = "Square72" ->
        [num_ecc_blocks |-> 4, num_ecc_per_block |-> 36, width |-> 72, height |-> 72,
         extra_horizontal_alignments |-> 3, extra_vertical_alignments |-> 3]
      [] s = "Square80" ->
        [num_ecc_blocks |-> 4, num_ecc_per_block |-> 48, width |-> 80, height |-> 80,
         extra_horizontal_alignments |-> 3, extra_vertical_alignments |-> 3]
      [] s = "Square88" ->
        [num_ecc_blocks |-> 4, num_ecc_per_block |-> 56, width |-> 88, height |-> 88,
         extra_horizontal_alignments |-> 3, extra_vertical_alignments |-> 3]
      [] s = "Square96" ->
        [num_ecc_blocks |-> 4, num_ecc_per_block |-> 68, width |-> 96, height |-> 96,
         extra_horizontal_alignments |-> 3, extra_vertical_alignments |-> 3]
      [] s = "Square104" ->
        [num_ecc_blocks |-> 6, num_ecc_per_block |-> 56, width |-> 104, height |-> 104,
         extra_horizontal_alignments |-> 3, extra_vertical_alignments |-> 3]
      [] s = "Square120" ->
        [num_ecc_blocks |-> 6, num_ecc_per_block |-> 68, width |-> 120, height |-> 120,
         extra_horizontal_alignments |-> 5, extra_vertical_alignments |-> 5]
      [] s = "Square132" ->
        [num_ecc_blocks |-> 8, num_ecc_per_block |-> 62, width |-> 132, height |-> 132,
         extra_horizontal_alignments |-> 5, extra_vertical_alignments |-> 5]
      [] s = "Square144" ->
        [num_ecc_blocks |-> 10, num_ecc_per_block |-> 62, width |-> 144, height |-> 144,
         extra_horizontal_alignments |-> 5, extra_vertical_alignments |-> 5]
      [] s = "Rect8x18" ->
        [num_ecc_blocks |-> 1, num_ecc_per_block |-> 7, width |-> 18, height |-> 8,
         extra_horizontal_alignments |-> 0, extra_vertical_alignments |-> 0]
      [] s = "Rect8x32" ->
        [num_ecc_blocks |-> 1, num_ecc_per_block |-> 11, width |-> 32, height |-> 8,
         extra_horizontal_alignments |-> 0, extra_vertical_alignments |-> 1]
      [] s = "Rect12x26" ->
        [num_ecc_blocks |-> 1, num_ecc_per_block |-> 14, width |-> 26, height |-> 12,
         extra_horizontal_alignments |-> 0, extra_vertical_alignments |-> 0]
      [] s = "Rect12x36" ->
        [num_ecc_blocks |-> 1, num_ecc_per_block |-> 18, width |-> 36, height |-> 12,
         extra_horizontal_alignments |-> 0, extra_vertical_alignments |-> 1]
      [] s = "Rect16x36" ->
        [num_ecc_blocks |-> 1, num_ecc_per_block |-> 24, width |-> 36, height |-> 16,
         extra_horizontal_alignments |-> 0, extra_vertical_alignments |-> 1]
      [] s = "Rect16x48" ->
        [num_ecc_blocks |-> 1, num_ecc_per_block |-> 28, width |-> 48, height |-> 16,
         extra_horizontal_alignments |-> 0, extra_vertical_alignments |-> 1]
      [] s = "Rect8x48" ->
        [num_ecc_blocks |-> 1, num_ecc_per_block |-> 15, width |-> 48, height |-> 8,
         extra_horizontal_alignments |-> 0, extra_vertical_alignments |-> 1]
      [] s = "Rect8x64" ->
        [num_ecc_blocks |-> 1, num_ecc_per_block |-> 18, width |-> 64, height |-> 8,
         extra_horizontal_alignments |-> 0, extra_vertical_alignments |-> 3]
      [] s = "Rect8x80" ->
        [num_ecc_blocks |-> 1, num_ecc_per_block |-> 22, width |-> 80, height |-> 8,
         extra_horizontal_alignments |-> 0, extra_vertical_alignments |-> 3]
      [] s = "Rect8x96" ->
        [num_ecc_blocks |-> 1, num_ecc_per_block |-> 28, width |-> 96, height |-> 8,
         extra_horizontal_alignments |-> 0, extra_vertical_alignments |-> 3]
      [] s = "Rect8x120" ->
        [num_ecc_blocks |-> 1, num_ecc_per_block |-> 32, width |-> 120, height |-> 8,
         extra_horizontal_alignments |-> 0, extra_vertical_alignments |-> 5]
      [] s = "Rect8x144" ->
        [num_ecc_blocks |-> 1, num_ecc_per_block |-> 36, width |-> 144, height |-> 8,
         extra_horizontal_alignments |-> 0, extra_vertical_alignments |-> 5]
      [] s = "Rect12x64" ->
        [num_ecc_blocks |-> 1, num_ecc_per_block |-> 27, width |-> 64, height |-> 12,
         extra_horizontal_alignments |-> 0, extra_vertical_alignments |-> 3]
      [] s = "Rect12x88" ->
        [num_ecc_blocks |-> 1, num_ecc_per_block |-> 36, width |-> 88, height |-> 12,
         extra_horizontal_alignments |-> 0, extra_vertical_alignments |-> 3]
      [] s = "Rect16x64" ->
        [num_ecc_blocks |-> 1, num_ecc_per_block |-> 36, width |-> 64, height |-> 16,
         extra_horizontal_alignments |-> 0, extra_vertical_alignments |-> 3]
      [] s = "Rect20x36" ->
        [num_ecc_blocks |-> 1, num_ecc_per_block |-> 28, width |-> 36, height |-> 20,
         extra_horizontal_alignments |-> 0, extra_vertical_alignments |-> 1]
      [] s = "Rect20x44" ->
        [num_ecc_blocks |-> 1, num_ecc_per_block |-> 34, width |-> 44, height |-> 20,
         extra_horizontal_alignments |-> 0, extra_vertical_alignments |-> 1]
      [] s = "Rect20x64" ->
        [num_ecc_blocks |-> 1, num_ecc_per_block |-> 42, width |-> 64, height |-> 20,
         extra_horizontal_alignments |-> 0, extra_vertical_alignments |-> 3]
      [] s = "Rect22x48" ->
        [num_ecc_blocks |-> 1, num_ecc_per_block |-> 38, width |-> 48, height |-> 22,
         extra_horizontal_alignments |-> 0, extra_vertical_alignments |-> 1]
      [] s = "Rect24x48" ->
        [num_ecc_blocks |-> 1, num_ecc_per_block |-> 41, width |-> 48, height |-> 24,
         extra_horizontal_alignments |-> 0, extra_vertical_alignments |-> 1]
      [] s = "Rect24x64" ->
        [num_ecc_blocks |-> 1, num_ecc_per_block |-> 46, width |-> 64, height |-> 24,
         extra_horizontal_alignments |-> 0, extra_vertical_alignments |-> 3]
      [] s = "Rect26x40" ->
        [num_ecc_blocks |-> 1, num_ecc_per_block |-> 38, width |-> 40, height |-> 26,
         extra_horizontal_alignments |-> 0, extra_vertical_alignments |-> 1]
      [] s = "Rect26x48" ->
        [num_ecc_blocks |-> 1, num_ecc_per_block |-> 42, width |-> 48, height |-> 26,
         extra_horizontal_alignments |-> 0, extra_vertical_alignments |-> 1]
      [] s = "Rect26x64" ->
        [num_ecc_blocks |-> 1, num_ecc_per_block |-> 50, width |-> 64, height |-> 26,
         extra_horizontal_alignments |-> 0, extra_vertical_alignments |-> 3]

\* SymbolSize::has_padding_modules
has_padding_modules(s) ==
    s \in {"Square12", "Square16", "Square20", "Square24"}

\* BlockSetup::content_width
content_width(bs) == bs.width - 2 - 2 * bs.extra_vertical_alignments

\* BlockSetup::content_height
content_height(bs) == bs.height - 2 - 2 * bs.extra_horizontal_alignments

\* SymbolSize::num_codewords
num_codewords(s) ==
    num_data_codewords(s)
        + block_setup(s).num_ecc_blocks * block_setup(s).num_ecc_per_block

\* impl Ord for SymbolSize: the key (data codewords, width^2 + height^2)
symbol_key(s) ==
    <<num_data_codewords(s),
      block_setup(s).width * block_setup(s).width
          + block_setup(s).height * block_setup(s).height>>

\* lexicographic comparison of two keys, as (usize, usize)::cmp
symbol_less(a, b) ==
    \/ symbol_key(a)[1] < symbol_key(b)[1]
    \/ /\ symbol_key(a)[1] = symbol_key(b)[1]
       /\ symbol_key(a)[2] < symbol_key(b)[2]

-----------------------------------------------------------------------------
(* Reed-Solomon encoding, errorcode/mod.rs *)

\* GENERATOR_POLYNOMIALS: coefficients, highest power first, one per ECC length
GENERATOR_POLYNOMIALS ==
    <<
      << \* 5
       1, 62, 111, 15, 48, 228
      >>,
      << \* 7
       1, 254, 92, 240, 134, 144, 68, 23
      >>,
      << \* 10
       1, 61, 110, 255, 116, 248, 223, 166, 185, 24, 28
      >>,
      << \* 11
       1, 120, 97, 60, 245, 39, 168, 194, 12, 205, 138, 175
      >>,
      << \* 12
       1, 242, 100, 178, 97, 213, 142, 42, 61, 91, 158, 153, 41
      >>,
      << \* 14
       1, 185, 83, 186, 18, 45, 138, 119, 157, 9, 95, 252, 192, 97, 156
      >>,
      << \* 15
       1, 93, 223, 139, 159, 35, 145, 234, 176, 153, 88, 201, 148, 33, 88,
       116
      >>,
      << \* 18
       1, 188, 90, 48, 225, 254, 94, 129, 109, 213, 241, 61, 66, 75, 188,
       39, 100, 195, 83
      >>,
      << \* 20
       1, 172, 186, 174, 27, 82, 108, 79, 253, 145, 153, 160, 188, 2, 168,
       71, 233, 9, 244, 195, 15
      >>,
      << \* 22
       1, 236, 188, 3, 209, 217, 125, 10, 38, 152, 1, 132, 27, 94, 71, 123,
       5, 241, 95, 201, 76, 249, 75
      >>,
      << \* 24
       1, 193, 50, 96, 184, 181, 12, 124, 254, 172, 5, 21, 155, 223, 251,
       197, 155, 21, 176, 39, 109, 205, 88, 190, 52
      >>,
      << \* 27
       1, 232, 180, 161, 246, 233, 134, 72, 108, 210, 246, 244, 65, 55,
       123, 29, 229, 47, 205, 143, 74, 97, 147, 182, 96, 130, 183, 215
      >>,
      << \* 28
       1, 255, 93, 168, 233, 151, 120, 136, 141, 213, 110, 138, 17, 121,
       249, 34, 75, 53, 170, 151, 37, 174, 103, 96, 71, 97, 43, 231, 211
      >>,
      << \* 32
       1, 104, 129, 163, 234, 55, 95, 144, 174, 249, 2, 145, 104, 19, 103,
       202, 211, 38, 2, 120, 209, 58, 61, 21, 236, 95, 107, 199, 228, 130,
       159, 184, 227
      >>,
      << \* 34
       1, 139, 4, 179, 189, 67, 14, 89, 138, 237, 152, 62, 154, 62, 107,
       114, 189, 6, 143, 95, 90, 116, 237, 103, 42, 95, 203, 234, 71, 172,
       210, 218, 231, 197, 190
      >>,
      << \* 36
       1, 112, 81, 98, 225, 25, 59, 184, 175, 44, 115, 119, 95, 137, 101,
       33, 68, 4, 2, 18, 229, 182, 80, 251, 220, 179, 84, 120, 102, 181,
       162, 250, 130, 218, 242, 127, 245
      >>,
      << \* 38
       1, 235, 181, 165, 241, 166, 169, 220, 128, 80, 134, 170, 223, 122,
       215, 83, 183, 55, 211, 139, 103, 172, 41, 203, 123, 143, 233, 74,
       237, 168, 102, 90, 166, 222, 239, 141, 101, 30, 109
      >>,
      << \* 41
       1, 149, 220, 249, 68, 38, 81, 71, 79, 244, 224, 15, 133, 132, 208,
       211, 90, 165, 84, 144, 137, 250, 156, 120, 101, 136, 172, 193, 216,
       99, 53, 48, 194, 222, 6, 142, 2, 43, 106, 123, 21, 35
      >>,
      << \* 42
       1, 5, 9, 5, 226, 177, 150, 50, 69, 202, 248, 101, 54, 57, 253, 1,
       21, 121, 57, 111, 214, 105, 167, 9, 100, 95, 175, 8, 242, 133, 245,
       2, 122, 105, 247, 153, 22, 38, 19, 31, 137, 193, 77
      >>,
      << \* 46
       1, 78, 62, 74, 235, 114, 62, 141, 178, 40, 98, 144, 118, 173, 138,
       72, 43, 21, 77, 47, 127, 130, 206, 33, 221, 83, 171, 135, 29, 11,
       61, 47, 51, 111, 129, 35, 186, 232, 160, 178, 114, 135, 113, 200,
       197, 29, 195
      >>,
      << \* 48
       1, 19, 225, 253, 92, 213, 69, 175, 160, 147, 187, 87, 176, 44, 82,
       240, 186, 138, 66, 100, 120, 88, 131, 205, 170, 90, 37, 23, 118,
       147, 16, 106, 191, 87, 237, 188, 205, 231, 238, 133, 238, 22, 117,
       32, 96, 223, 172, 132, 245
      >>,
      << \* 50
       1, 74, 54, 162, 91, 167, 218, 212, 183, 156, 74, 16, 153, 79, 231,
       112, 28, 25, 185, 8, 241, 243, 76, 80, 14, 205, 156, 65, 114, 251,
       241, 14, 142, 9, 16, 112, 230, 36, 223, 222, 74, 245, 123, 150, 102,
       167, 43, 165, 254, 166, 1
      >>,
      << \* 56
       1, 46, 143, 53, 233, 107, 203, 43, 155, 28, 247, 67, 127, 245, 137,
       13, 164, 207, 62, 117, 201, 150, 22, 238, 144, 232, 29, 203, 117,
       234, 218, 146, 228, 54, 132, 200, 38, 223, 36, 159, 150, 235, 215,
       192, 230, 170, 175, 29, 100, 208, 220, 17, 12, 238, 223, 9, 175
      >>,
      << \* 62
       1, 204, 11, 47, 86, 124, 224, 166, 94, 7, 232, 107, 4, 170, 176, 31,
       163, 17, 188, 130, 40, 10, 87, 63, 51, 218, 27, 6, 147, 44, 161, 71,
       114, 64, 175, 221, 185, 106, 250, 190, 197, 63, 245, 230, 134, 112,
       185, 37, 196, 108, 143, 189, 201, 188, 202, 118, 39, 210, 144, 50,
       169, 93, 242
      >>,
      << \* 68
       1, 186, 82, 103, 96, 63, 132, 153, 108, 54, 64, 189, 211, 232, 49,
       25, 172, 52, 59, 241, 181, 239, 223, 136, 231, 210, 96, 232, 220,
       25, 179, 167, 202, 185, 153, 139, 66, 236, 227, 160, 15, 213, 93,
       122, 68, 177, 158, 197, 234, 180, 248, 136, 213, 127, 73, 36, 154,
       244, 147, 33, 89, 56, 159, 149, 251, 89, 173, 228, 220
      >>
    >>

\* generator(len): the polynomial with len + 1 coefficients
generator(len) ==
    GENERATOR_POLYNOMIALS[
        CHOOSE i \in 1..Len(GENERATOR_POLYNOMIALS) :
            Len(GENERATOR_POLYNOMIALS[i]) - 1 = len]

\* (start..).step_by(stride) over a slice: Rust indices start, start + stride, ...
step_by(s, start, stride) ==
    Vec([k \in 1..((Len(s) - start + stride - 1) \div stride) |->
            s[start + (k - 1) * stride + 1]])

\* ecc_block with the generator's coefficients taken one place too early
ecc_block_shifted(data, g, ecc0) ==
    LET ecc_len == Len(g) - 1
        round(ecc, pos) ==
            LET k == GFAdd(ecc[1], data[pos])
            IN  Vec([j \in 1..Len(ecc) |->
                        IF j <= ecc_len
                        THEN GFAdd(ecc[j + 1], GFMul(k, g[j]))
                        ELSE ecc[j]])
    IN  ForLoop(round, 1, Len(data), ecc0)

\* ecc_block: polynomial division of data(x) * x^k by g; ecc has k + 1 entries
\* and the remainder ends up in the first k of them
ecc_block(data, g, ecc0) ==
    LET ecc_len == Len(g) - 1
        round(ecc, pos) ==
            LET k == GFAdd(ecc[1], data[pos])
            IN  Vec([j \in 1..Len(ecc) |->
                        IF j <= ecc_len
                        THEN GFAdd(ecc[j + 1], GFMul(k, g[j + 1]))
                        ELSE ecc[j]])
    IN  ForLoop(round, 1, Len(data), ecc0)

\* encode_error: the error codewords of all blocks, interleaved
encode_error(data, s) ==
    LET setup == block_setup(s)
        gen == generator(setup.num_ecc_per_block)
        stride == setup.num_ecc_blocks
        blocks == Vec([b \in 1..stride |->
                     ecc_block(step_by(data, b - 1, stride), gen,
                               Repeat(0, setup.num_ecc_per_block + 1))])
    IN  Vec([i \in 1..(setup.num_ecc_per_block * stride) |->
                blocks[((i - 1) % stride) + 1][((i - 1) \div stride) + 1]])

-----------------------------------------------------------------------------
(* Reed-Solomon decoding, errorcode/decoding *)

\* primitive_element_evaluation: the values of the polynomial with the
\* coefficients c (highest power first) at x, x^2, ..., x^count
primitive_element_evaluation(c, count) ==
    LET round(st, o) ==
            LET g == Vec([k \in 1..Len(st.gamma) |->
                            GFMul(st.gamma[k], primitive_power(k - 1))])
            IN  [gamma |-> g, out |-> Append(st.out, GFSum(g))]
    IN  ForLoop(round, 1, count, [gamma |-> Rev(c), out |-> <<>>]).out

\* dot(a, b) in find_inv_error_locations_levinson_durbin
dot(a, b) ==
    GFSum(Vec([k \in 1..(IF Len(a) < Len(b) THEN Len(a) ELSE Len(b)) |->
                  GFMul(a[k], b[k])]))

\* "The Regular Case" of the Levinson-Durbin loop; tmp is [w_v, -1]
ld_regular(syn, st, tmp, eps_v) ==
    LET v == st.v
        w1 == <<0>> \o st.w
        w2 == Vec([k \in 1..(v + 1) |->
                     IF k <= v THEN GFSub(w1[k], GFMul(eps_v, st.y[k]))
                     ELSE w1[k]])
        beta == GFDiv(dot(Slice(syn, v + 1, 2 * v + 1), tmp), eps_v)
        gamma == dot(Slice(syn, v, 2 * v - 1), st.y)
        w3 == Vec([k \in 1..(v + 1) |->
                     GFSub(w2[k], GFMul(GFSub(beta, gamma), tmp[k]))])
        eps_inv == GFDiv(1, eps_v)
        y1 == Vec([k \in 1..v |-> GFMul(tmp[k], eps_inv)]) \o <<GFNeg(eps_inv)>>
    IN  [v |-> v + 1, w |-> w3, y |-> y1, done |-> FALSE]

\* eq. (8) of "The Singular Case": one round of the iteration of w^k in tmp
ld_wk_round(syn, st, tmp, k) ==
    LET v == st.v
        rho == GFSub(syn[2 * v + k + 1], dot(Slice(syn, v, 2 * v - 1), tmp))
    IN  Vec([i \in 1..v |->
               GFAdd(IF i = 1 THEN 0 ELSE tmp[i - 1],
                     GFAdd(GFMul(rho, st.y[i]), GFMul(tmp[v], st.w[i])))])

\* eq. (11): update y
ld_update_y(st, m, sigma_m_inv) ==
    Vec([i \in 1..(m + st.v + 1) |->
           IF i <= st.v THEN GFMul(st.w[i], sigma_m_inv)
           ELSE IF i = st.v + 1 THEN GFNeg(sigma_m_inv)
           ELSE 0])

\* eq. (10): the right hand side of the triangular system for gamma
ld_gamma_rhs(syn, st, m, tmp1) ==
    Vec([i \in 1..(m + 1) |->
           GFSub(syn[m + st.v + st.v + 1 + i],
                 dot(Slice(syn, st.v + i - 1, 2 * st.v + i - 2), tmp1))])

\* eq. (10): one round of the forward substitution for gamma
ld_gamma_round(sigma, gamma, i) ==
    [gamma EXCEPT ![i + 1] =
        GFDiv(GFSub(gamma[i + 1],
                    GFSum(Vec([j \in 1..i |->
                        GFMul(sigma[i - j + 2], gamma[j])]))),
              sigma[1])]

\* eq. (9): one round of the update of w
ld_w_round(st, m, gamma, tmp, i) ==
    LET a(k) == IF k - 1 >= m - i /\ k - 1 < m - i + st.v
                THEN GFAdd(tmp[k], GFMul(gamma[i + 1], st.w[k - (m - i)]))
                ELSE tmp[k]
    IN  Vec([k \in 1..(m + st.v + 1) |->
               IF k = m - i + st.v + 1 THEN GFSub(a(k), gamma[i + 1])
               ELSE a(k)])

\* eq. (9): update w, given gamma
ld_update_w(st, m, tmp1, gamma) ==
    ForLoop(LAMBDA tmp, i : ld_w_round(st, m, gamma, tmp, i), 0, m,
            tmp1 \o Repeat(0, m + 1))

\* the singular case, given m, sigma = sigma_m..sigma_2m, and w^m in tmp1
ld_singular_update(syn, st, m, sigma, tmp1) ==
    [v |-> m + st.v + 1,
     w |-> ld_update_w(st, m, tmp1,
              ForLoop(LAMBDA gamma, i : ld_gamma_round(sigma, gamma, i),
                      0, m, ld_gamma_rhs(syn, st, m, tmp1))),
     y |-> ld_update_y(st, m, GFDiv(1, sigma[1])),
     done |-> FALSE]

\* sigma_i of the singular case
ld_sigma(syn, st, tmp0, i) ==
    dot(Slice(syn, st.v + i, 2 * st.v + i), tmp0)

\* the singular case, given the candidates for m: none ends the loop
ld_singular_first(syn, st, tmp0, cand) ==
    IF cand = {} THEN [st EXCEPT !.done = TRUE]
    ELSE ld_singular_update(syn, st, SetMin(cand),
             Vec([k \in 1..(SetMin(cand) + 1) |->
                    ld_sigma(syn, st, tmp0, SetMin(cand) + k - 1)]),
             ForLoop(LAMBDA tmp, k : ld_wk_round(syn, st, tmp, k),
                     0, SetMin(cand), st.w))

\* "The Singular Case" of the Levinson-Durbin loop
ld_singular(syn, st, tmp0, t) ==
    ld_singular_first(syn, st, tmp0,
        {i \in 1..(t - st.v - 1) : ld_sigma(syn, st, tmp0, i) # 0})

\* one round of the initial solution w
ld_init_round(syn, v0, w, i) ==
    [w EXCEPT ![v0 - i] =
        GFDiv(GFSub(w[v0 - i],
                    GFSum(Vec([j \in 1..i |->
                        GFMul(syn[i + (v0 - i + j - 1) + 1],
                              w[v0 - i + j])]))),
              syn[v0])]

\* one round of the Levinson-Durbin loop, given epsilon_v
ld_case(syn, st, tmp, eps_v) ==
    IF eps_v # 0 THEN ld_regular(syn, st, tmp, eps_v)
    ELSE ld_singular(syn, st, tmp, Len(syn) \div 2)

\* one round of the Levinson-Durbin loop; tmp is [w_v, -1]
ld_round(syn, st, tmp) ==
    ld_case(syn, st, tmp, dot(Slice(syn, st.v, 2 * st.v), tmp))

\* the Levinson-Durbin loop: while v < t
ld_step(syn, st) ==
    IF st.done \/ st.v >= Len(syn) \div 2 THEN st
    ELSE ld_round(syn, st, st.w \o <<GFNeg(1)>>)

\* the locator, given the index v0 of the first syndrome that is not zero
ld_from(syn, v0) ==
    IF 2 * v0 > Len(syn) THEN [panic |-> TRUE, w |-> <<>>]
    ELSE [panic |-> FALSE,
          w |-> ForLoop(LAMBDA st, it : ld_step(syn, st), 1, Len(syn) \div 2,
                  [v |-> v0,
                   w |-> ForLoop(LAMBDA w, i : ld_init_round(syn, v0, w, i),
                                 0, v0 - 1, Rev(Slice(syn, v0, 2 * v0 - 1))),
                   y |-> <<GFDiv(1, syn[v0])>> \o Repeat(0, v0 - 1),
                   done |-> FALSE]).w \o <<1>>]

\* the index (from 1) of the first entry that is not zero, Len + 1 if none
first_non_zero(syn) ==
    IF \A k \in 1..Len(syn) : syn[k] = 0 THEN Len(syn) + 1
    ELSE SetMin({k \in 1..Len(syn) : syn[k] # 0})

\* find_inv_error_locations_levinson_durbin: the coefficients of the error
\* locator, or a panic where the code indexes the syndromes out of range
find_inv_error_locations_levinson_durbin(syn) ==
    ld_from(syn, first_non_zero(syn))

\* chien_search: the zeros of the polynomial with coefficients c; a panic
\* where the linear case divides by a zero leading coefficient
chien_search(c) ==
    IF c = <<>> THEN [panic |-> FALSE, out |-> <<>>]
    ELSE
    LET out0 == IF c[Len(c)] = 0 THEN <<0>> ELSE <<>>
        round(st, i) ==
            LET val == GFSum(st.gamma)
                g == Vec([k \in 1..Len(st.gamma) |->
                            GFMul(st.gamma[k], primitive_power(k - 1))])
            IN  [gamma |-> g,
                 out |-> IF val = 0 THEN Append(st.out, primitive_power(i))
                         ELSE st.out]
    IN  IF Len(c) = 2
        THEN IF c[2] # 0
             THEN IF c[1] = 0 THEN [panic |-> TRUE, out |-> out0]
                  ELSE [panic |-> FALSE,
                        out |-> Append(out0, GFDiv(GFNeg(c[2]), c[1]))]
             ELSE [panic |-> FALSE, out |-> out0]
        ELSE [panic |-> FALSE,
              out |-> ForLoop(round, 0, 254,
                              [gamma |-> Rev(c), out |-> out0]).out]

\* for j in (k+1..e).rev(): syn[j] -= x[k] * syn[j-1]
bp_down(x, syn, k) ==
    Vec([j \in 1..Len(syn) |->
           IF j - 1 >= k + 1 /\ j - 1 < Len(x)
           THEN GFSub(syn[j], GFMul(x[k + 1], syn[j - 1]))
           ELSE syn[j]])

\* round it of for k in (0..e-1).rev(): divide, then subtract the neighbour
bp_up(x, syn, it) ==
    LET k == Len(x) - 2 - it
        a(j) == IF j - 1 >= k + 1 /\ j - 1 < Len(x)
                THEN GFDiv(syn[j], GFSub(x[j], x[j - k - 1]))
                ELSE syn[j]
    IN  Vec([j \in 1..Len(syn) |->
               IF j - 1 >= k /\ j - 1 < Len(x) - 1
               THEN GFSub(a(j), a(j + 1))
               ELSE a(j)])

\* the last loop: syn[i] /= x[i]
bp_finish(x, s2) ==
    [x_loc |-> x,
     syn |-> Vec([i \in 1..Len(s2) |->
                    IF i <= Len(x) THEN GFDiv(s2[i], x[i]) ELSE s2[i]])]

\* the two sweeps over syn, given the inverted locations
bp_sweeps(x, syn0) ==
    bp_finish(x, ForLoop(LAMBDA syn, it : bp_up(x, syn, it), 0, Len(x) - 2,
                         ForLoop(LAMBDA syn, k : bp_down(x, syn, k),
                                 0, Len(x) - 2, syn0)))

\* find_error_values_bp: inverts the zeros in x_loc in place, giving the error
\* locations, and computes the error values in place in syn
find_error_values_bp(x_loc, syn0) ==
    bp_sweeps(Vec([k \in 1..Len(x_loc) |-> GFDiv(1, x_loc[k])]), syn0)

\* step 4 of decode_gen for one error: the codeword at idx gets the correction
correct_at(st, err, idx) ==
    IF idx < Len(st.data)
    THEN [st EXCEPT !.data[idx + 1] = GFSub(st.data[idx + 1], err)]
    ELSE IF idx - Len(st.data) >= Len(st.error)
    THEN [st EXCEPT !.result = "Panic"]
    ELSE [st EXCEPT !.error[idx - Len(st.data) + 1] =
              GFSub(st.error[idx - Len(st.data) + 1], err)]

\* step 4 of decode_gen for one error with location alpha^i
correct_error(st, stride, n, err, i) ==
    IF st.result # "Ok" THEN st
    ELSE IF i >= n THEN [st EXCEPT !.result = "ErrorsOutsideRange"]
    ELSE correct_at(st, err, (n - i - 1) * stride)

\* step 4 of decode_gen: apply the corrections, one after the other
correct_errors(data0, error0, stride, n, locs, vals) ==
    ForLoop(LAMBDA st, q : correct_error(st, stride, n, vals[q], LOG[locs[q]]),
            1, Len(locs),
            [data |-> data0, error |-> error0, result |-> "Ok"])

\* decode_gen returning early: nothing is changed
decode_unchanged(data, error, r) ==
    [data |-> data, error |-> error, result |-> r]

\* steps 3 and 4 of decode_gen
decode_values(data, error, stride, bp) ==
    correct_errors(data, error, stride,
                   (Len(data) + stride - 1) \div stride
                       + (Len(error) + stride - 1) \div stride,
                   bp.x_loc, bp.syn)

\* step 2b of decode_gen: the malfunction check
malfunction(syndromes, lambda_coeff, t) ==
    \E j \in t..(2 * t - (Len(lambda_coeff) - 1) - 1) :
        dot(SubSeq(syndromes, j + 1, Len(syndromes)), lambda_coeff) # 0

\* decode_gen from the result of the Chien search on
decode_locations(data, error, stride, syndromes, lambda_coeff, chien) ==
    IF chien.panic THEN decode_unchanged(data, error, "Panic")
    ELSE IF \/ Len(chien.out) # Len(lambda_coeff) - 1
            \/ chien.out[1] = 0
    THEN decode_unchanged(data, error, "Malfunction")
    ELSE IF malfunction(syndromes, lambda_coeff, Len(syndromes) \div 2)
    THEN decode_unchanged(data, error, "Malfunction")
    ELSE decode_values(data, error, stride,
                       find_error_values_bp(chien.out, syndromes))

\* decode_gen from the error locator on
decode_locator(data, error, stride, syndromes, ld) ==
    IF ld.panic THEN decode_unchanged(data, error, "Panic")
    ELSE decode_locations(data, error, stride, syndromes, ld.w,
                          chien_search(ld.w))

\* decode_gen from the syndromes on
decode_syndromes(data, error, stride, syndromes) ==
    IF \A k \in 1..Len(syndromes) : syndromes[k] = 0
    THEN decode_unchanged(data, error, "Ok")
    ELSE decode_locator(data, error, stride, syndromes,
                        find_inv_error_locations_levinson_durbin(syndromes))

\* decode_gen: correct one block, given as the tails data[block..] and
\* error[block..] of the codewords and the stride between its codewords
decode_gen(data, error, stride, err_len) ==
    decode_syndromes(data, error, stride,
        primitive_element_evaluation(
            step_by(data, 0, stride) \o step_by(error, 0, stride), err_len))

\* the codewords with block b replaced by the result r of decode_gen
decode_merge(codewords, num_data, b, r) ==
    [codewords |-> SubSeq(codewords, 1, b) \o r.data
                   \o SubSeq(codewords, num_data + 1, num_data + b)
                   \o r.error,
     result |-> r.result]

\* decode, block b: the first block that fails ends the run
decode_block(st, setup, num_data, b) ==
    IF st.result # "Ok" THEN st
    ELSE decode_merge(st.codewords, num_data, b,
             decode_gen(SubSeq(st.codewords, b + 1, num_data),
                        SubSeq(st.codewords, num_data + b + 1,
                               Len(st.codewords)),
                        setup.num_ecc_blocks, setup.num_ecc_per_block))

\* decode, given the block setup of the symbol size
decode_blocks(codewords, setup, num_data) ==
    ForLoop(LAMBDA st, b : decode_block(st, setup, num_data, b),
            0, setup.num_ecc_blocks - 1,
            [codewords |-> codewords, result |-> "Ok"])

\* decode: correct the blocks one after the other, in place
decode(codewords, s) ==
    decode_blocks(codewords, block_setup(s), num_data_codewords(s))

\* the syndromes of one block of the codewords of a symbol
block_syndromes(codewords, s, block) ==
    LET num_data == num_data_codewords(s)
        stride == block_setup(s).num_ecc_blocks
        data == SubSeq(codewords, 1, num_data)
        error == SubSeq(codewords, num_data + 1, Len(codewords))
    IN  primitive_element_evaluation(
            step_by(data, block, stride) \o step_by(error, block, stride),
            block_setup(s).num_ecc_per_block)

-----------------------------------------------------------------------------
(* The Reed-Solomon run: encode, transmit with errors, decode *)

\* the symbol sizes of the run with errors: single block, and interleaved
RSSizes == {"Square10", "Square12", "Rect8x18", "Square52"}

\* the data blocks tried per symbol size are those of the seeds 0..MaxSeed
MaxSeed == 1

\* at most MaxErrors codewords are hit in transmission
MaxErrors == 2

\* the values added to a codeword that is hit
ErrValues == {1, 170}

\* a data block of the symbol's length, different for every seed
rs_pattern(s, seed) ==
    [i \in 1..num_data_codewords(s) |->
        (seed * 89 + i * (2 * seed + 1) * 7) % 256]

\* the codewords that may be hit (Rust indices): the first and the last data
\* codewords and the first and the last error codewords
ErrPositions(s) ==
    {0, 1, num_data_codewords(s) - 1, num_data_codewords(s),
     num_data_codewords(s) + 1, num_codewords(s) - 1}

\* the block a codeword belongs to
block_of(s, pos) ==
    IF pos < num_data_codewords(s)
    THEN pos % block_setup(s).num_ecc_blocks
    ELSE (pos - num_data_codewords(s)) % block_setup(s).num_ecc_blocks

\* the codewords hit so far
hit == {p \in 0..(Len(sent) - 1) : received[p + 1] # sent[p + 1]}

RSInit(sizes) ==
    /\ size \in sizes
    /\ \E seed \in 0..MaxSeed : rs_data = rs_pattern(size, seed)
    /\ sent = <<>>
    /\ received = <<>>
    /\ rs_result = "none"
    /\ rs_pc = "start"
    /\ PlIdle
    /\ EncIdle

\* DataMatrix::encode_eci: codewords.extend(encode_error(&codewords, size))
RSEncode ==
    /\ rs_pc = "start"
    /\ sent' = rs_data \o encode_error(rs_data, size)
    /\ received' = sent'
    /\ rs_pc' = "encoded"
    /\ UNCHANGED <<size, rs_data, rs_result>>
    /\ UNCHANGED <<plVars, encVars>>

\* transmission changes one more codeword; no block gets more errors than
\* half its number of error codewords
RSCorrupt ==
    /\ rs_pc \in {"encoded", "corrupted"}
    /\ Cardinality(hit) < MaxErrors
    /\ \E pos \in ErrPositions(size) \ hit, val \in ErrValues :
          /\ Cardinality({p \in hit : block_of(size, p) = block_of(size, pos)})
                 < block_setup(size).num_ecc_per_block \div 2
          /\ received' = [received EXCEPT ![pos + 1] = BitXor(@, val)]
    /\ rs_pc' = "corrupted"
    /\ UNCHANGED <<size, rs_data, sent, rs_result>>
    /\ UNCHANGED <<plVars, encVars>>

\* errorcode::decode(&mut codewords, size)
RSDecode ==
    /\ rs_pc \in {"encoded", "corrupted"}
    /\ LET r == decode(received, size)
       IN  /\ received' = r.codewords
           /\ rs_result' = r.result
    /\ rs_pc' = "decoded"
    /\ UNCHANGED <<size, rs_data, sent>>
    /\ UNCHANGED <<plVars, encVars>>

SpecRS == RSInit(RSSizes) /\ [][RSEncode \/ RSCorrupt \/ RSDecode]_vars

\* C2: after transmission with at most floor(Ne / 2) wrong codewords in
\* every block, decoding succeeds and gives back the codewords as encoded
C2_Recovery ==
    rs_pc = "decoded" => (rs_result = "Ok" /\ received = sent)

\* a symbol with interleaved blocks was decoded after a codeword of the error
\* part of its second block had been hit
C2_Witness ==
    /\ rs_pc = "decoded"
    /\ size = "Square52"
    /\ \E p \in 0..(Len(sent) - 1) :
          /\ p >= num_data_codewords(size)
          /\ block_of(size, p) = 1
          /\ received[p + 1] # sent[p + 1]

\* every symbol size
AllSizes == {SYMBOL_SIZES[k] : k \in 1..Len(SYMBOL_SIZES)}

SpecEcc == RSInit(AllSizes) /\ [][RSEncode]_vars

\* C9: the codewords of each block of an encoded symbol, its data codewords
\* followed by its error codewords, evaluate to zero at x, x^2, ..., x^Ne
C9_SyndromesZero ==
    rs_pc = "encoded" =>
        \A block \in 0..(block_setup(size).num_ecc_blocks - 1) :
            LET syndromes == block_syndromes(sent, size, block)
            IN  /\ Len(syndromes) = block_setup(size).num_ecc_per_block
                /\ \A k \in 1..Len(syndromes) : syndromes[k] = 0

\* an interleaved symbol with blocks of unequal length has been encoded
C9_Witness ==
    /\ rs_pc = "encoded"
    /\ size = "Square144"
    /\ Len(sent) = 2178
    /\ \E k \in 1..Len(sent) : sent[k] # 0


-----------------------------------------------------------------------------
(* Module placement, placement.rs.  A MatrixMap is a record with the       *)
(* fields of the struct; its entries are booleans, HIGH = TRUE.            *)

\* idx without the wrapping at the borders of the map
idx_no_wrap(h, w, i, j) == i * w + j

\* IndexTraversal::idx: the index of module (i, j), with wrapping
idx(h, w, i, j) ==
    LET i1 == IF i < 0 THEN i + h ELSE i
        j1 == IF i < 0 THEN j + 4 - ((h + 4) % 8) ELSE j
        i2 == IF j1 < 0 THEN i1 + 4 - ((w + 4) % 8) ELSE i1
        j2 == IF j1 < 0 THEN j1 + w ELSE j1
        i3 == IF i2 >= h THEN i2 - h ELSE i2
    IN  i3 * w + j2

\* IndexTraversal::utah: the standard shape
utah(h, w, i, j) ==
    <<idx(h, w, i - 2, j - 2), idx(h, w, i - 2, j - 1),
      idx(h, w, i - 1, j - 2), idx(h, w, i - 1, j - 1), idx(h, w, i - 1, j),
      idx(h, w, i, j - 2), idx(h, w, i, j - 1), idx(h, w, i, j)>>

corner1(h, w) ==
    <<idx(h, w, h - 1, 0), idx(h, w, h - 1, 1), idx(h, w, h - 1, 2),
      idx(h, w, 0, w - 2), idx(h, w, 0, w - 1), idx(h, w, 1, w - 1),
      idx(h, w, 2, w - 1), idx(h, w, 3, w - 1)>>

corner2(h, w) ==
    <<idx(h, w, h - 3, 0), idx(h, w, h - 2, 0), idx(h, w, h - 1, 0),
      idx(h, w, 0, w - 4), idx(h, w, 0, w - 3), idx(h, w, 0, w - 2),
      idx(h, w, 0, w - 1), idx(h, w, 1, w - 1)>>

corner3(h, w) ==
    <<idx(h, w, h - 3, 0), idx(h, w, h - 2, 0), idx(h, w, h - 1, 0),
      idx(h, w, 0, w - 2), idx(h, w, 0, w - 1), idx(h, w, 1, w - 1),
      idx(h, w, 2, w - 1), idx(h, w, 3, w - 1)>>

corner4(h, w) ==
    <<idx(h, w, h - 1, 0), idx(h, w, h - 1, w - 1), idx(h, w, 0, w - 3),
      idx(h, w, 0, w - 2), idx(h, w, 0, w - 1), idx(h, w, 1, w - 3),
      idx(h, w, 1, w - 2), idx(h, w, 1, w - 1)>>

\* the macro visit!: mark the eight modules, hand them to visit_fn with the
\* next codeword index; an index outside of visited panics
visit(st, ii) ==
    IF \E k \in 1..8 : ii[k] < 0 \/ ii[k] >= Len(st.visited)
    THEN [st EXCEPT !.panic = TRUE]
    ELSE [st EXCEPT !.visited = [@ EXCEPT ![ii[1] + 1] = TRUE,
                                          ![ii[2] + 1] = TRUE,
                                          ![ii[3] + 1] = TRUE,
                                          ![ii[4] + 1] = TRUE,
                                          ![ii[5] + 1] = TRUE,
                                          ![ii[6] + 1] = TRUE,
                                          ![ii[7] + 1] = TRUE,
                                          ![ii[8] + 1] = TRUE],
                    !.log = Append(@, ii)]

\* the four corner cases at the head of the outer loop, one after the other
visit_corner1(h, w, st) ==
    IF st.i = h /\ st.j = 0 THEN visit(st, corner1(h, w)) ELSE st

visit_corner2(h, w, st) ==
    IF st.i = h - 2 /\ st.j = 0 /\ w % 4 # 0 /\ ~st.panic
    THEN visit(st, corner2(h, w)) ELSE st

visit_corner3(h, w, st) ==
    IF st.i = h - 2 /\ st.j = 0 /\ w % 8 = 4 /\ ~st.panic
    THEN visit(st, corner3(h, w)) ELSE st

visit_corner4(h, w, st) ==
    IF st.i = h + 4 /\ st.j = 2 /\ w % 8 = 0 /\ ~st.panic
    THEN visit(st, corner4(h, w)) ELSE st

\* the body of a sweep: visit the utah shape at (i, j) if the module is inside
\* and not visited; reading visited outside of its range panics
visit_utah(h, w, st, inside) ==
    IF ~inside THEN st
    ELSE IF st.i * w + st.j < 0 \/ st.i * w + st.j >= Len(st.visited)
    THEN [st EXCEPT !.panic = TRUE]
    ELSE IF st.visited[st.i * w + st.j + 1] THEN st
    ELSE visit(st, utah(h, w, st.i, st.j))

\* one round of the upward sweep, and the step to the downward sweep after it
sweep_up(h, w, st) ==
    IF st.i - 2 >= 0 /\ st.j + 2 < w
    THEN [st EXCEPT !.i = @ - 2, !.j = @ + 2]
    ELSE [st EXCEPT !.i = @ - 2 + 1, !.j = @ + 2 + 3, !.phase = "down"]

\* one round of the downward sweep, and the end of the outer loop after it
sweep_down(h, w, st) ==
    IF st.i + 2 < h /\ st.j - 2 >= 0
    THEN [st EXCEPT !.i = @ + 2, !.j = @ - 2]
    ELSE [st EXCEPT !.i = @ + 2 + 3, !.j = @ - 2 + 1,
                    !.phase = IF st.i + 2 + 3 < h \/ st.j - 2 + 1 < w
                              THEN "corners" ELSE "done"]

\* one step of IndexTraversal::run
run_step(h, w, st) ==
    IF st.panic \/ st.phase = "done" THEN st
    ELSE IF st.phase = "corners"
    THEN [visit_corner4(h, w, visit_corner3(h, w,
              visit_corner2(h, w, visit_corner1(h, w, st))))
            EXCEPT !.phase = "up"]
    ELSE IF st.phase = "up"
    THEN sweep_up(h, w, visit_utah(h, w, st, st.i < h /\ st.j >= 0))
    ELSE sweep_down(h, w, visit_utah(h, w, st, st.i >= 0 /\ st.j < w))

\* no traversal takes more steps than this
run_steps(h, w) == ((h + 8) * (w + 8)) \div 4 + 16

\* IndexTraversal::run: the visits in order (log), the modules marked
\* (visited), and whether the run panicked
run(h, w) ==
    ForLoop(LAMBDA st, k : run_step(h, w, st), 1, run_steps(h, w),
            [i |-> 4, j |-> 0, phase |-> "corners", panic |-> FALSE,
             visited |-> Repeat(FALSE, h * w), log |-> <<>>])

\* the struct MatrixMap for a block setup
MatrixMap_with(setup, padding) ==
    [entries |-> Repeat(FALSE, content_width(setup) * content_height(setup)),
     width |-> content_width(setup),
     height |-> content_height(setup),
     extra_vertical_alignments |-> setup.extra_vertical_alignments,
     extra_horizontal_alignments |-> setup.extra_horizontal_alignments,
     has_padding |-> padding]

\* MatrixMap::new: the empty map of a symbol size, all modules LOW
MatrixMap_new(s) == MatrixMap_with(block_setup(s), has_padding_modules(s))

\* MatrixMap::write_padding: the pattern in the lower right corner
write_padding(map) ==
    IF map.has_padding
    THEN [map EXCEPT
             !.entries[map.width * (map.height - 2) + map.width - 2 + 1] = TRUE,
             !.entries[map.width * (map.height - 1) + map.width - 1 + 1] = TRUE]
    ELSE map

\* bit k (0 the lowest) of a byte
bit_of(byte, k) == (byte \div 2 ^ k) % 2 = 1

\* the closure of fill_with_codewords on one visit: the modules get the bits
\* of the codeword, highest first; bits_mut needs eight different modules,
\* and the codeword has to exist
fill_visit(st, data, q, ii) ==
    IF st.panic THEN st
    ELSE IF q > Len(data) \/ Cardinality({ii[k] : k \in 1..8}) # 8
    THEN [st EXCEPT !.panic = TRUE]
    ELSE [st EXCEPT !.map.entries =
             [@ EXCEPT ![ii[1] + 1] = bit_of(data[q], 7),
                       ![ii[2] + 1] = bit_of(data[q], 6),
                       ![ii[3] + 1] = bit_of(data[q], 5),
                       ![ii[4] + 1] = bit_of(data[q], 4),
                       ![ii[5] + 1] = bit_of(data[q], 3),
                       ![ii[6] + 1] = bit_of(data[q], 2),
                       ![ii[7] + 1] = bit_of(data[q], 1),
                       ![ii[8] + 1] = bit_of(data[q], 0)]]

\* fill_with_codewords, given what the traversal visits
fill_visits(map, data, trav) ==
    ForLoop(LAMBDA st, q : fill_visit(st, data, q, trav.log[q]),
            1, Len(trav.log), [map |-> map, panic |-> FALSE])

\* fill_with_codewords, after the traversal: the padding pattern
fill_padding(st, trav) ==
    IF st.panic \/ trav.panic THEN [st EXCEPT !.panic = TRUE]
    ELSE [st EXCEPT !.map = write_padding(@)]

\* fill_with_codewords, given what the traversal visits
fill_with(map, data, trav) ==
    fill_padding(fill_visits(map, data, trav), trav)

\* MatrixMap::fill_with_codewords
fill_with_codewords(map, data) ==
    fill_with(map, data, run(map.height, map.width))

\* MatrixMap::new_with_codewords
new_with_codewords(data, s) == fill_with_codewords(MatrixMap_new(s), data)

\* the closure of codewords on one visit: the eight modules, highest bit first
codeword_of(entries, ii) ==
    (IF entries[ii[1] + 1] THEN 128 ELSE 0) + (IF entries[ii[2] + 1] THEN 64 ELSE 0)
    + (IF entries[ii[3] + 1] THEN 32 ELSE 0) + (IF entries[ii[4] + 1] THEN 16 ELSE 0)
    + (IF entries[ii[5] + 1] THEN 8 ELSE 0) + (IF entries[ii[6] + 1] THEN 4 ELSE 0)
    + (IF entries[ii[7] + 1] THEN 2 ELSE 0) + (IF entries[ii[8] + 1] THEN 1 ELSE 0)

\* MatrixMap::codewords, given what the traversal visits: a visit beyond the
\* entries.len() / 8 codewords panics
codewords_with(map, trav) ==
    IF trav.panic \/ Len(trav.log) > Len(map.entries) \div 8
    THEN [panic |-> TRUE, data |-> <<>>]
    ELSE [panic |-> FALSE,
          data |-> Vec([q \in 1..(Len(map.entries) \div 8) |->
                          IF q <= Len(trav.log)
                          THEN codeword_of(map.entries, trav.log[q])
                          ELSE 0])]

\* MatrixMap::codewords: extract the codewords
codewords(map) == codewords_with(map, run(map.height, map.width))

\* (a..b).step_by(step)
Range(a, b, step) ==
    Vec([k \in 1..((b - a + step - 1) \div step) |-> a + (k - 1) * step])

\* the sequences of a sequence, one after the other
Flatten(ss) == ForLoop(LAMBDA acc, k : acc \o ss[k], 1, Len(ss), <<>>)

\* bits[idx(i, j)] = HIGH for the columns js of row i, as (index, value) pairs
high_row(w, i, js) == Vec([k \in 1..Len(js) |-> <<i * w + js[k], TRUE>>])

\* bits[idx(i, j)] = HIGH for the rows is of column j
high_col(w, is, j) == Vec([k \in 1..Len(is) |-> <<is[k] * w + j, TRUE>>])

\* bitmap: "draw horizontal alignments"
horizontal_alignments(w, extra_hor, blk_h) ==
    Flatten(Vec([i \in 1..extra_hor |->
        high_row(w, 1 + (blk_h + 2) * (i - 1) + blk_h, Range(0, w, 1))
        \o high_row(w, 1 + (blk_h + 2) * (i - 1) + blk_h + 1, Range(0, w, 2))]))

\* bitmap: "draw vertical alignments"
vertical_alignments(h, w, extra_ver, blk_w) ==
    Flatten(Vec([j \in 1..extra_ver |->
        high_col(w, Range(1, h, 1), 1 + (blk_w + 2) * (j - 1) + blk_w + 1)
        \o high_col(w, Range(1, h, 2), 1 + (blk_w + 2) * (j - 1) + blk_w)]))

\* bitmap: the bottom, top, left and right alignment
outer_alignments(h, w) ==
    high_row(w, h - 1, Range(0, w, 1)) \o high_row(w, 0, Range(0, w, 2))
    \o high_col(w, Range(0, h, 1), 0) \o high_col(w, Range(1, h, 2), w - 1)

\* bitmap, "copy the data": the row of the bitmap that entry b_i goes to
data_row(map, b_i, blk_h) ==
    (b_i \div map.width) + 1 + ((b_i \div map.width) \div blk_h) * 2

\* data_col without the alignment patterns between the blocks
data_col_one_block(map, b_i, blk_w) == (b_i % map.width) + 1

\* bitmap, "copy the data": the column of the bitmap that entry b_i goes to
data_col(map, b_i, blk_w) ==
    (b_i % map.width) + 1 + ((b_i % map.width) \div blk_w) * 2

\* bitmap: "copy the data"
copy_the_data(map, w, blk_h, blk_w) ==
    Vec([b \in 1..Len(map.entries) |->
        <<data_row(map, b - 1, blk_h) * w + data_col(map, b - 1, blk_w),
          map.entries[b]>>])

\* one assignment to bits; an index out of range panics
put_bit(st, write) ==
    IF st.panic THEN st
    ELSE IF write[1] < 0 \/ write[1] >= Len(st.bits)
    THEN [st EXCEPT !.panic = TRUE]
    ELSE [st EXCEPT !.bits[write[1] + 1] = write[2]]

\* the assignments to bits, in the order of the code
put_bits(st, writes) ==
    ForLoop(LAMBDA acc, k : put_bit(acc, writes[k]), 1, Len(writes), st)

\* bitmap, given the height and width of the bitmap and of a block
bitmap_with(map, h, w, blk_h, blk_w) ==
    put_bits([width |-> w, bits |-> Repeat(FALSE, h * w), panic |-> FALSE],
        horizontal_alignments(w, map.extra_horizontal_alignments, blk_h)
        \o vertical_alignments(h, w, map.extra_vertical_alignments, blk_w)
        \o outer_alignments(h, w)
        \o copy_the_data(map, w, blk_h, blk_w))

\* bitmap, given the height and width of the bitmap
bitmap_of_size(map, h, w) ==
    bitmap_with(map, h, w,
        (h - 2 * (map.extra_horizontal_alignments + 1))
            \div (map.extra_horizontal_alignments + 1),
        (w - 2 * (map.extra_vertical_alignments + 1))
            \div (map.extra_vertical_alignments + 1))

\* MatrixMap::bitmap: the content with the alignment patterns added
bitmap(map) ==
    bitmap_of_size(map,
        map.height + 2 + 2 * map.extra_horizontal_alignments,
        map.width + 2 + 2 * map.extra_vertical_alignments)

\* try_from_bits: the first size of SymbolList::all() with the width and the
\* height of the bitmap
symbol_with(width, height) ==
    LET found == {k \in 1..Len(SYMBOL_SIZES) :
                    /\ block_setup(SYMBOL_SIZES[k]).width = width
                    /\ block_setup(SYMBOL_SIZES[k]).height = height}
    IN  IF found = {} THEN "None" ELSE SYMBOL_SIZES[SetMin(found)]

\* try_from_bits: the index in bits (from 0) where chunk j of the rows of row
\* chunk c begins
chunk_start(width, blk_h, blk_w, c, j) ==
    c * (blk_h + 2) * width + width + j * (blk_w + 2)

\* try_from_bits: the first row of row chunk c alternates, its last row is HIGH
row_alignment_ok(bits, width, blk_h, c) ==
    /\ \A j \in 0..(width - 1) :
          bits[(c * (blk_h + 2) + blk_h + 1) * width + j + 1] = TRUE
    /\ \A j \in 0..(width - 1) :
          bits[c * (blk_h + 2) * width + j + 1] = (j % 2 = 0)

\* try_from_bits: every chunk of the rows of row chunk c begins HIGH and ends
\* with the alignment bit, which changes with every row
col_alignment_ok(bits, width, blk_h, blk_w, extra_ver, c) ==
    \A j \in 0..((blk_h * width) \div (blk_w + 2) - 1) :
        /\ bits[chunk_start(width, blk_h, blk_w, c, j) + 1] = TRUE
        /\ bits[chunk_start(width, blk_h, blk_w, c, j) + blk_w + 1 + 1]
               = ((j \div (extra_ver + 1)) % 2 = 0)

\* try_from_bits: entry e (from 0) in the order the chunks are appended
chunk_entry(bits, width, blk_h, blk_w, e) ==
    bits[chunk_start(width, blk_h, blk_w,
                     e \div (((blk_h * width) \div (blk_w + 2)) * blk_w),
                     (e % (((blk_h * width) \div (blk_w + 2)) * blk_w))
                         \div blk_w)
         + 1 + (e % blk_w) + 1]

\* try_from_bits: the padding pattern in the entries
padding_pattern_ok(entries, w) ==
    /\ entries[Len(entries) - 1] = FALSE
    /\ entries[Len(entries)] = TRUE
    /\ entries[Len(entries) - w - 1] = TRUE
    /\ entries[Len(entries) - w] = FALSE

\* try_from_bits: the ConversionReport
conversion_report(s, setup, entries, alignment_ok) ==
    [none |-> FALSE,
     panic |-> Len(entries) # content_width(setup) * content_height(setup),
     alignment_ok |-> alignment_ok,
     padding_ok |-> IF has_padding_modules(s)
                    THEN padding_pattern_ok(entries, content_width(setup))
                    ELSE TRUE,
     symbol_size |-> s,
     matrix_map |-> [MatrixMap_with(setup, has_padding_modules(s))
                        EXCEPT !.entries = entries]]

\* try_from_bits without a result
no_report(none, panic) ==
    [none |-> none, panic |-> panic, alignment_ok |-> FALSE,
     padding_ok |-> FALSE, symbol_size |-> "None", matrix_map |-> <<>>]

\* try_from_bits, given the height and the width of a block: the chunks must
\* divide the bitmap and its rows
convert_chunks(bits, width, s, setup, blk_h, blk_w) ==
    IF \/ Len(bits) % ((blk_h + 2) * width) # 0
       \/ width % (blk_w + 2) # 0
    THEN no_report(FALSE, TRUE)
    ELSE conversion_report(s, setup,
             Vec([e \in 1..((Len(bits) \div ((blk_h + 2) * width))
                              * ((blk_h * width) \div (blk_w + 2)) * blk_w) |->
                     chunk_entry(bits, width, blk_h, blk_w, e - 1)]),
             \A c \in 0..(Len(bits) \div ((blk_h + 2) * width) - 1) :
                 /\ row_alignment_ok(bits, width, blk_h, c)
                 /\ col_alignment_ok(bits, width, blk_h, blk_w,
                                     setup.extra_vertical_alignments, c))

\* try_from_bits, given the symbol size
convert_size(bits, width, s, setup) ==
    convert_chunks(bits, width, s, setup,
        content_height(setup) \div (setup.extra_horizontal_alignments + 1),
        content_width(setup) \div (setup.extra_vertical_alignments + 1))

\* try_from_bits, given the symbol size if there is one
convert_found(bits, width, s) ==
    IF s = "None" THEN no_report(TRUE, FALSE)
    ELSE convert_size(bits, width, s, block_setup(s))

\* MatrixMap::try_from_bits: read the map from the pixels of a symbol
try_from_bits(bits, width) ==
    IF Len(bits) % width # 0 THEN no_report(TRUE, FALSE)
    ELSE convert_found(bits, width, symbol_with(width, Len(bits) \div width))

-----------------------------------------------------------------------------
(* The placement run: traverse, fill with codewords, draw, read back *)

\* the maps tried per symbol size are those of the seeds 0..MaxMapSeed
MaxMapSeed == 0

\* the codewords of a symbol size, different for every seed
pl_pattern(s, seed) ==
    [i \in 1..num_codewords(s) |-> (seed * 101 + i * (2 * seed + 1) * 13) % 256]

PlInit(sizes) ==
    /\ size \in sizes
    /\ RSIdle
    /\ EncIdle
    /\ \E seed \in 0..MaxMapSeed : pl_data = pl_pattern(size, seed)
    /\ pl_trav = <<>>
    /\ pl_map = <<>>
    /\ pl_bitmap = <<>>
    /\ pl_report = <<>>
    /\ pl_pc = "start"

\* MatrixMap::new(size).traverse(visit_fn), visit_fn keeping what it is given
PlTraverse ==
    /\ pl_pc = "start"
    /\ pl_trav' = run(content_height(block_setup(size)),
                      content_width(block_setup(size)))
    /\ pl_pc' = "traversed"
    /\ UNCHANGED <<size, pl_data, pl_map, pl_bitmap, pl_report>>
    /\ UNCHANGED <<rsVars, encVars>>

\* MatrixMap::new_with_codewords(data, size)
PlFill ==
    /\ pl_pc = "traversed"
    /\ pl_map' = new_with_codewords(pl_data, size)
    /\ pl_pc' = "filled"
    /\ UNCHANGED <<size, pl_data, pl_trav, pl_bitmap, pl_report>>
    /\ UNCHANGED <<rsVars, encVars>>

\* map.bitmap()
PlBitmap ==
    /\ pl_pc = "filled"
    /\ ~pl_map.panic
    /\ pl_bitmap' = bitmap(pl_map.map)
    /\ pl_pc' = "drawn"
    /\ UNCHANGED <<size, pl_data, pl_trav, pl_map, pl_report>>
    /\ UNCHANGED <<rsVars, encVars>>

\* MatrixMap::try_from_bits(&bitmap.bits, bitmap.width)
PlFromBits ==
    /\ pl_pc = "drawn"
    /\ ~pl_bitmap.panic
    /\ pl_report' = try_from_bits(pl_bitmap.bits, pl_bitmap.width)
    /\ pl_pc' = "read"
    /\ UNCHANGED <<size, pl_data, pl_trav, pl_map, pl_bitmap>>
    /\ UNCHANGED <<rsVars, encVars>>

SpecPlace ==
    PlInit(AllSizes) /\ [][PlTraverse \/ PlFill \/ PlBitmap \/ PlFromBits]_vars

\* the modules the traversal gave to codewords
visited_modules == {pl_trav.log[q][k] : q \in 1..Len(pl_trav.log), k \in 1..8}

\* the four modules of the padding pattern of a map of height h and width w
padding_modules(h, w) ==
    {(h - 2) * w + w - 2, (h - 2) * w + w - 1,
     (h - 1) * w + w - 2, (h - 1) * w + w - 1}

\* C7: the traversal of a symbol size ends, emits the codeword indices
\* 0..num_codewords-1 once each, every emitted module lies in the content
\* area, no module is given twice, and the modules left over are exactly the
\* four padding modules of the sizes that have them
C7_TraversalExact ==
    pl_pc = "traversed" =>
        /\ ~pl_trav.panic
        /\ pl_trav.phase = "done"
        /\ Len(pl_trav.log) = num_codewords(size)
        /\ visited_modules \subseteq 0..(Len(pl_trav.visited) - 1)
        /\ Cardinality(visited_modules) = 8 * Len(pl_trav.log)
        /\ (0..(Len(pl_trav.visited) - 1)) \ visited_modules
              = IF has_padding_modules(size)
                THEN padding_modules(content_height(block_setup(size)),
                                     content_width(block_setup(size)))
                ELSE {}

\* a symbol with padding modules was traversed, and its last module is left
C7_Witness ==
    /\ pl_pc = "traversed"
    /\ has_padding_modules(size)
    /\ Len(pl_trav.log) > 0
    /\ ~pl_trav.visited[Len(pl_trav.visited)]

\* C8: the bitmap of a map read back gives the same map and symbol size, with
\* alignment and padding found in order
C8_BitmapRoundTrip ==
    pl_pc = "read" =>
        /\ ~pl_report.none
        /\ ~pl_report.panic
        /\ pl_report.matrix_map = pl_map.map
        /\ pl_report.symbol_size = size
        /\ pl_report.alignment_ok
        /\ pl_report.padding_ok

\* the bitmap of a symbol with interior alignment patterns and with modules
\* set was read back
C8_Witness ==
    /\ pl_pc = "read"
    /\ block_setup(size).extra_horizontal_alignments > 0
    /\ block_setup(size).extra_vertical_alignments > 0
    /\ \E k \in 1..Len(pl_map.map.entries) : pl_map.map.entries[k]
    /\ pl_report.matrix_map.entries = pl_map.map.entries


-----------------------------------------------------------------------------
(* The data encoder, encodation/mod.rs.  An EncodationType is a string, a   *)
(* FlagSet of them a set of strings, a SymbolList the sequence of its       *)
(* symbol sizes in the order of the BTreeSet, a panic a flag of the record. *)

MACRO05 == 236

MACRO06 == 237

\* b"[)>\x1E05\x1D"
MACRO05_HEAD == <<91, 41, 62, 30, 48, 53, 29>>

\* b"[)>\x1E06\x1D"
MACRO06_HEAD == <<91, 41, 62, 30, 48, 54, 29>>

\* b"\x1E\x04"
MACRO_TRAIL == <<30, 4>>

UNLATCH == 254

ASCII_ECI == 241

\* EncodationType::all
AllModes == {"Ascii", "C40", "Text", "X12", "Edifact", "Base256"}

\* slice::starts_with
starts_with(s, p) == Len(p) <= Len(s) /\ SubSeq(s, 1, Len(p)) = p

\* slice::ends_with
ends_with(s, p) == Len(p) <= Len(s) /\ SubSeq(s, Len(s) - Len(p) + 1, Len(s)) = p

\* SymbolList::with_whitelist: the symbols as the BTreeSet iterates over them,
\* in the order of Ord for SymbolSize
with_whitelist(symbols) ==
    Vec([n \in 1..Cardinality(symbols) |->
            CHOOSE s \in symbols :
                Cardinality({t \in symbols : symbol_less(t, s)}) = n - 1])

\* SymbolList::default
SymbolList_default == with_whitelist({s \in AllSizes : ~is_dmre(s)})

\* SymbolList::all
SymbolList_all == with_whitelist(AllSizes)

\* GenericDataEncoder::with_size; the new_mode None is -1, the err "None" is no
\* error returned so far
with_size(data, symbol_list, enabled_modes) ==
    [data |-> data, input |-> data, symbol_list |-> symbol_list,
     new_mode |-> -1, encodation |-> "Ascii", codewords |-> <<>>,
     planned_switches |-> <<>>, enabled_modes |-> enabled_modes,
     panic |-> FALSE, err |-> "None"]

\* the body of the loop of use_macro_if_possible once the head matched; the
\* slice data[head.len()..data.len() - MACRO_TRAIL.len()] panics when its
\* start lies behind its end
macro_strip(e, head, cw) ==
    IF Len(head) > Len(e.data) - Len(MACRO_TRAIL)
    THEN [e EXCEPT !.codewords = Append(@, cw), !.panic = TRUE]
    ELSE [e EXCEPT !.codewords = Append(@, cw),
                   !.data = SubSeq(e.data, Len(head) + 1,
                                   Len(e.data) - Len(MACRO_TRAIL))]

\* the guard of use_macro_if_possible: return without a macro
macro_guard(e) == e.codewords # <<>> /\ ~ends_with(e.data, MACRO_TRAIL)

\* GenericDataEncoder::use_macro_if_possible
use_macro_if_possible(e) ==
    IF macro_guard(e) THEN e
    ELSE IF starts_with(e.data, MACRO05_HEAD) THEN macro_strip(e, MACRO05_HEAD, MACRO05)
    ELSE IF starts_with(e.data, MACRO06_HEAD) THEN macro_strip(e, MACRO06_HEAD, MACRO06)
    ELSE e

\* eci: Option<u32> is None
NoEci == -1

\* GenericDataEncoder::write_eci
write_eci(e, c) ==
    LET cw == Append(e.codewords, ASCII_ECI)
    IN  IF c <= 126 THEN [e EXCEPT !.codewords = Append(cw, c + 1)]
        ELSE IF c <= 16382
        THEN [e EXCEPT !.codewords =
                  cw \o <<((c - 127) \div 254) + 128, ((c - 127) % 254) + 1>>]
        ELSE IF c <= 999999
        THEN [e EXCEPT !.codewords =
                  cw \o <<((c - 16383) \div 64516) + 192,
                          (((c - 16383) \div 254) % 254) + 1,
                          ((c - 16383) % 254) + 1>>]
        ELSE [e EXCEPT !.codewords = cw, !.panic = TRUE]


-----------------------------------------------------------------------------
(* The mode planner, encodation/planner.  A Frac is its numerator over the  *)
(* fixed denominator 12.  A plan is one record for all six modes: the       *)
(* fields of the GenericPlan (start, extra, switches), of its Context       *)
(* (consumed, written; the rest of the input is d[consumed + 1 ..]) and of  *)
(* the plan of the mode.  An Option<usize> or Option<Frac> is -1 for None.  *)
(* The symbol list is handed over as the sequence nds of the data codeword  *)
(* counts of its symbols.                                                   *)

DENUM == 12

\* Frac::new
Frac_new(num, denum) == num * (DENUM \div denum)

\* Frac::ceil
Frac_ceil(f) == IF f % DENUM # 0 THEN f + (DENUM - (f % DENUM)) ELSE f

\* u8::is_ascii_digit
is_ascii_digit(ch) == ch \in 48..57

\* SymbolList::first_symbol_big_enough_for on the data codeword counts: the
\* index of the symbol, 0 for None
first_big_enough(nds, size_needed) ==
    LET fit == {k \in 1..Len(nds) : nds[k] >= size_needed}
    IN  IF fit = {} THEN 0 ELSE SetMin(fit)

\* Context::symbol_size_left
size_left(nds, size_needed) ==
    LET k == first_big_enough(nds, size_needed)
    IN  IF k = 0 THEN -1 ELSE nds[k] - size_needed

\* ContextInformation::has_more_characters
has_more(p, d) == p.consumed < Len(d)

\* ContextInformation::characters_left
chars_left(p, d) == Len(d) - p.consumed

\* ascii::two_digits_coming on d[from + 1 ..]
two_digits_at(d, from) ==
    from + 2 <= Len(d) /\ is_ascii_digit(d[from + 1]) /\ is_ascii_digit(d[from + 2])

\* ascii::encoding_size on d[from + 1 .. to]
RECURSIVE encoding_size_in(_, _, _)
encoding_size_in(d, from, to) ==
    IF from >= to THEN 0
    ELSE IF from + 2 <= to /\ is_ascii_digit(d[from + 1]) /\ is_ascii_digit(d[from + 2])
    THEN 1 + encoding_size_in(d, from + 2, to)
    ELSE IF d[from + 1] <= 127 THEN 1 + encoding_size_in(d, from + 1, to)
    ELSE 2 + encoding_size_in(d, from + 1, to)

\* ascii::encoding_size
encoding_size(rest) == encoding_size_in(rest, 0, Len(rest))

\* rest.iter().take_while(u8::is_ascii_digit).count() on d[from + 1 ..]
RECURSIVE digits_coming(_, _)
digits_coming(d, from) ==
    IF from < Len(d) /\ is_ascii_digit(d[from + 1])
    THEN 1 + digits_coming(d, from + 1)
    ELSE 0

\* the plan of a mode on a context that has consumed and written so much;
\* AsciiPlan::new, C40LikePlan::new, X12Plan::new and
\* EdifactPlan::with_free_unlatch(ctx, false) set exactly these fields
plan_new(mode, consumed, written) ==
    [mode |-> mode, consumed |-> consumed, written |-> written, cost |-> 0,
     digits_ahead |-> 0, b_written |-> 0, values |-> 0, unbeatable_reads |-> 0,
     ch |-> 0, two_digit_ascii_end |-> FALSE, ascii_end |-> -1, e_written |-> 0,
     start |-> mode, extra |-> 0, switches |-> <<>>, panic |-> FALSE]

\* a StepResult; none is the None of Option<StepResult>
step_result(p, end, unbeatable) ==
    [plan |-> p, none |-> FALSE, end |-> end, unbeatable |-> unbeatable]

step_none(p) == [plan |-> p, none |-> TRUE, end |-> FALSE, unbeatable |-> FALSE]

\* AsciiPlan::step, the first part: count the digits coming
ascii_look(p, d) ==
    IF p.digits_ahead = 0
    THEN LET ahead == (digits_coming(d, p.consumed) \div 2) * 2
         IN  [p EXCEPT !.digits_ahead = ahead, !.written = @ + (ahead \div 2)]
    ELSE p

\* AsciiPlan::step, the second part: read one character
ascii_eat(p, d) ==
    LET ch == d[p.consumed + 1]
        q == [p EXCEPT !.consumed = @ + 1]
    IN  IF p.digits_ahead > 0
        THEN [q EXCEPT !.digits_ahead = @ - 1, !.cost = @ + Frac_new(1, 2),
                       !.panic = @ \/ ~is_ascii_digit(ch)]
        ELSE IF ch <= 127
        THEN [q EXCEPT !.cost = @ + Frac_new(1, 1), !.written = @ + 1]
        ELSE [q EXCEPT !.cost = @ + Frac_new(2, 1), !.written = @ + 2]

\* AsciiPlan::step
ascii_step_from(q, d) ==
    IF has_more(q, d)
    THEN step_result(ascii_eat(q, d), FALSE, q.digits_ahead > 0)
    ELSE step_result(q, TRUE, q.digits_ahead > 0)

ascii_step(p, d) == ascii_step_from(ascii_look(p, d), d)

\* Base256Plan::with_written
base256_with_written(consumed, written, b_written) ==
    IF b_written = 0
    THEN [plan_new("Base256", consumed, written + 1) EXCEPT !.cost = Frac_new(1, 1)]
    ELSE [plan_new("Base256", consumed, written) EXCEPT !.b_written = b_written]

\* Base256Plan::step
base256_step(p, d) ==
    IF has_more(p, d)
    THEN LET q == [p EXCEPT !.consumed = @ + 1, !.b_written = @ + 1,
                            !.cost = @ + Frac_new(1, 1), !.written = @ + 1]
         IN  IF q.b_written = 1556 THEN step_none(q)
             ELSE step_result(q, FALSE, FALSE)
    ELSE step_result(p, TRUE, FALSE)

\* Base256Plan::cost
base256_cost(p, d, nds) ==
    IF ~has_more(p, d)
    THEN LET sl == size_left(nds, p.written)
             left == IF sl = -1 THEN 1 ELSE sl
         IN  IF left > 0 /\ p.b_written > 249 THEN p.cost + Frac_new(1, 1)
             ELSE p.cost
    ELSE p.cost

\* c40::in_base_set
c40_in_base_set(ch) == ch = 32 \/ ch \in 48..57 \/ ch \in 65..90

\* text::in_base_set
text_in_base_set(ch) == ch = 32 \/ ch \in 48..57 \/ ch \in 97..122

\* CharsetInfo::in_base_set of the plan of the mode
in_base_set(mode, ch) ==
    IF mode = "Text" THEN text_in_base_set(ch) ELSE c40_in_base_set(ch)

\* c40::val_size
RECURSIVE c40_val_size(_)
c40_val_size(ch) ==
    IF c40_in_base_set(ch) THEN 1
    ELSE IF ch \in 0..31 \/ ch \in 33..47 \/ ch \in 58..64 \/ ch \in 91..127 THEN 2
    ELSE 2 + c40_val_size(ch - 128)

\* text::val_size
RECURSIVE text_val_size(_)
text_val_size(ch) ==
    IF text_in_base_set(ch) THEN 1
    ELSE IF ch \in 0..31 \/ ch \in 33..47 \/ ch \in 58..96 \/ ch \in 123..127 THEN 2
    ELSE 2 + text_val_size(ch - 128)

\* CharsetInfo::val_size of the plan of the mode
val_size(mode, ch) ==
    IF mode = "Text" THEN text_val_size(ch) ELSE c40_val_size(ch)

\* the loop of unbeatable_strike from d[from + 1] on: the reads counted
RECURSIVE strike_from(_, _, _, _, _)
strike_from(mode, d, from, reads, digits) ==
    IF from >= Len(d) \/ ~in_base_set(mode, d[from + 1]) THEN reads
    ELSE IF is_ascii_digit(d[from + 1])
    THEN IF digits + 1 = 7 THEN reads + 1 - 7
         ELSE strike_from(mode, d, from + 1, reads + 1, digits + 1)
    ELSE strike_from(mode, d, from + 1, reads + 1, 0)

\* planner::c40::unbeatable_strike
unbeatable_strike(mode, d, from) == (strike_from(mode, d, from, 0, 0) \div 3) * 3

\* C40LikePlan::step at a boundary with exactly two digits left, the space
\* left in the symbol known
c40_two_digits(p, space_left) ==
    LET q == [p EXCEPT !.two_digit_ascii_end = (space_left <= 1)]
    IN  IF space_left = 1
        THEN [q EXCEPT !.unbeatable_reads = 2, !.written = @ + 2]
        ELSE IF space_left = 0
        THEN [q EXCEPT !.unbeatable_reads = 2, !.written = @ + 1]
        ELSE q

\* C40LikePlan::step: count the base set characters coming
c40_strike(p, d) ==
    IF p.two_digit_ascii_end THEN p
    ELSE LET reads == unbeatable_strike(p.mode, d, p.consumed)
         IN  [p EXCEPT !.unbeatable_reads = reads,
                       !.written = @ + ((reads \div 3) * 2)]

\* C40LikePlan::step: while self.values >= 3
RECURSIVE c40_triples(_, _)
c40_triples(p, unbeatable) ==
    IF p.values >= 3
    THEN c40_triples([p EXCEPT !.cost = @ + Frac_new(2, 1), !.values = @ - 3,
                               !.written = IF unbeatable THEN @ ELSE @ + 2],
                     unbeatable)
    ELSE p

\* C40LikePlan::step: read one character
c40_eat(p, d) ==
    LET ch == d[p.consumed + 1]
        q == [p EXCEPT !.consumed = @ + 1, !.ch = ch]
        r == IF p.unbeatable_reads > 0
             THEN [q EXCEPT !.values = IF ~p.two_digit_ascii_end \/ p.values = 0
                                       THEN @ + 1 ELSE @,
                            !.unbeatable_reads = @ - 1]
             ELSE [q EXCEPT !.values = @ + val_size(p.mode, ch)]
    IN  c40_triples(r, p.unbeatable_reads > 0)

\* C40LikePlan::step once the look ahead is done
c40_step_from(q, d) ==
    IF has_more(q, d)
    THEN step_result(c40_eat(q, d), FALSE, q.unbeatable_reads > 0)
    ELSE step_result(q, TRUE, q.unbeatable_reads > 0)

\* C40LikePlan::step
c40_step(p, d, nds) ==
    IF p.values = 0 /\ p.unbeatable_reads = 0
    THEN IF chars_left(p, d) = 2 /\ two_digits_at(d, p.consumed)
         THEN LET space_left == size_left(nds, p.written + 1)
              IN  IF space_left = -1 THEN step_none(p)
                  ELSE c40_step_from(c40_strike(c40_two_digits(p, space_left), d), d)
         ELSE c40_step_from(c40_strike(p, d), d)
    ELSE c40_step_from(p, d)

\* Option::unwrap_or(0) of a symbol_size_left
or_zero(n) == IF n = -1 THEN 0 ELSE n

\* C40LikePlan::cost
c40_cost(p, d, nds) ==
    IF has_more(p, d) THEN p.cost + Frac_new(2 * p.values, 3)
    ELSE IF p.values = 2
    THEN IF or_zero(size_left(nds, p.written + 2)) = 0
         THEN p.cost + Frac_new(2, 1) ELSE p.cost + Frac_new(3, 1)
    ELSE IF p.values = 1
    THEN IF or_zero(size_left(nds, p.written + 1)) = 0 /\ encoding_size(<<p.ch>>) = 1
         THEN p.cost + Frac_new(1, 1)
         ELSE p.cost + Frac_new(1 + encoding_size(<<p.ch>>), 1)
    ELSE p.cost

\* edifact::is_encodable
is_encodable(ch) == ch \in 32..94

\* EdifactPlan::step: are we in a possible end of data situation?
edifact_look(p, d, nds) ==
    IF p.e_written = 0 /\ chars_left(p, d) <= 4 /\ p.ascii_end = -1
    THEN LET ascii_size == encoding_size_in(d, p.consumed, Len(d))
             space_left == size_left(nds, p.written + ascii_size)
         IN  IF ascii_size <= 2
             THEN IF space_left = -1 THEN [plan |-> p, none |-> TRUE]
                  ELSE IF space_left + ascii_size <= 2
                  THEN [plan |-> [p EXCEPT !.ascii_end =
                                      Frac_new(ascii_size, chars_left(p, d))],
                        none |-> FALSE]
                  ELSE [plan |-> p, none |-> FALSE]
             ELSE [plan |-> p, none |-> FALSE]
    ELSE [plan |-> p, none |-> FALSE]

\* EdifactPlan::step: read one character
edifact_eat(q, d) ==
    IF q.ascii_end = -1 /\ ~is_encodable(d[q.consumed + 1]) THEN step_none(q)
    ELSE IF q.ascii_end # -1
    THEN step_result([q EXCEPT !.consumed = @ + 1, !.cost = @ + q.ascii_end],
                     FALSE, TRUE)
    ELSE step_result([q EXCEPT !.consumed = @ + 1, !.cost = @ + Frac_new(3, 4),
                               !.e_written = (@ + 1) % 4,
                               !.written = IF (q.e_written + 1) % 4 = 0
                                           THEN @ + 3 ELSE @],
                     FALSE, FALSE)

\* EdifactPlan::step
edifact_step(p, d, nds) ==
    IF has_more(p, d)
    THEN LET look == edifact_look(p, d, nds)
         IN  IF look.none THEN step_none(look.plan)
             ELSE edifact_eat(look.plan, d)
    ELSE step_result(p, TRUE, p.ascii_end # -1)

\* x12::is_native_x12
is_native_x12(ch) == ch \in {13, 42, 62, 32} \/ ch \in 48..57 \/ ch \in 65..90

\* X12Plan::step: end the plan in ASCII, the unlatch paid or not
x12_ascii_end(p, d, ascii_size, unlatch) ==
    [p EXCEPT !.cost = @ + Frac_new(unlatch, 1),
              !.ascii_end = Frac_new(ascii_size, chars_left(p, d))]

\* X12Plan::step: one ASCII codeword would do, the space left known
x12_one_ascii(p, d, space_left) ==
    IF space_left = -1 THEN [plan |-> p, none |-> TRUE]
    ELSE IF space_left = 1 THEN [plan |-> x12_ascii_end(p, d, 1, 1), none |-> FALSE]
    ELSE IF space_left = 0 THEN [plan |-> x12_ascii_end(p, d, 1, 0), none |-> FALSE]
    ELSE [plan |-> x12_ascii_end(p, d, 1, 1), none |-> FALSE]

\* X12Plan::step: are we in a possible end of data situation?
x12_look(p, d, nds) ==
    IF p.values = 0 /\ chars_left(p, d) <= 2 /\ p.ascii_end = -1
    THEN IF encoding_size_in(d, p.consumed, Len(d)) = 1
         THEN x12_one_ascii(p, d, size_left(nds, p.written + 1))
         ELSE [plan |-> x12_ascii_end(p, d, encoding_size_in(d, p.consumed, Len(d)), 1),
               none |-> FALSE]
    ELSE [plan |-> p, none |-> FALSE]

\* X12Plan::step: read one character
x12_eat(q, d) ==
    IF q.ascii_end # -1
    THEN step_result([q EXCEPT !.consumed = @ + 1, !.cost = @ + q.ascii_end],
                     FALSE, TRUE)
    ELSE IF ~is_native_x12(d[q.consumed + 1])
    THEN step_none([q EXCEPT !.consumed = @ + 1])
    ELSE step_result([q EXCEPT !.consumed = @ + 1, !.cost = @ + Frac_new(2, 3),
                               !.values = (@ + 1) % 3,
                               !.written = IF (q.values + 1) % 3 = 0
                                           THEN @ + 2 ELSE @],
                     FALSE, FALSE)

\* X12Plan::step
x12_step(p, d, nds) ==
    IF has_more(p, d)
    THEN LET look == x12_look(p, d, nds)
         IN  IF look.none THEN step_none(look.plan)
             ELSE x12_eat(look.plan, d)
    ELSE step_result(p, TRUE, p.ascii_end # -1)

\* GenericPlan::step
plan_step(p, d, nds) ==
    CASE p.mode = "Ascii" -> ascii_step(p, d)
      [] p.mode = "Base256" -> base256_step(p, d)
      [] p.mode = "Edifact" -> edifact_step(p, d, nds)
      [] p.mode = "X12" -> x12_step(p, d, nds)
      [] OTHER -> c40_step(p, d, nds)

\* GenericPlan::cost
plan_cost(p, d, nds) ==
    CASE p.mode = "Base256" -> base256_cost(p, d, nds) + p.extra
      [] p.mode \in {"C40", "Text"} -> c40_cost(p, d, nds) + p.extra
      [] OTHER -> p.cost + p.extra

\* the mode_switch_cost of the plan of the mode
inner_switch_cost(p) ==
    CASE p.mode = "Ascii" -> Frac_ceil(p.cost)
      [] p.mode = "Base256" ->
            IF p.b_written >= 250 THEN p.cost + Frac_new(1, 1) ELSE p.cost
      [] p.mode = "Edifact" ->
            IF p.e_written = 3 THEN Frac_ceil(p.cost)
            ELSE Frac_ceil(p.cost + Frac_new(3, 4))
      [] p.mode = "X12" -> IF p.values = 0 THEN p.cost + Frac_new(1, 1) ELSE -1
      [] OTHER -> IF p.values = 0 THEN p.cost + Frac_new(1, 1)
                  ELSE p.cost + Frac_new(3, 1)

\* GenericPlan::mode_switch_cost
mode_switch_cost(p) ==
    IF inner_switch_cost(p) = -1 THEN -1 ELSE inner_switch_cost(p) + p.extra

\* the assertion of write_unlatch of the plan of the mode fails
unlatch_panics(p) ==
    CASE p.mode = "Ascii" -> p.digits_ahead # 0
      [] p.mode = "Edifact" -> p.ascii_end # -1
      [] p.mode = "X12" -> p.values # 0 \/ p.ascii_end # -1
      [] p.mode \in {"C40", "Text"} -> p.values > 2
      [] OTHER -> FALSE

\* GenericPlan::write_unlatch: the codewords written after the unlatch
write_unlatch(p) ==
    CASE p.mode = "Ascii" -> p.written
      [] p.mode = "Base256" -> IF p.b_written >= 250 THEN p.written + 1 ELSE p.written
      [] p.mode = "Edifact" ->
            p.written + (IF p.e_written + 1 < 3 THEN p.e_written + 1 ELSE 3)
      [] p.mode = "X12" -> p.written + 1
      [] OTHER -> IF p.values > 0 THEN p.written + 3 ELSE p.written + 1

\* GenericPlan::cost_for_switching_to
cost_for_switching_to(p, other, d, nds) ==
    IF p.mode = other THEN plan_cost(p, d, nds)
    ELSE IF p.mode = "Ascii" THEN p.cost + Frac_new(1, 1)
    ELSE IF other = "Ascii" THEN mode_switch_cost(p)
    ELSE IF mode_switch_cost(p) = -1 THEN -1
    ELSE mode_switch_cost(p) + Frac_new(1, 1)

\* EncodationType::index
mode_index(mode) ==
    CASE mode = "Ascii" -> 0
      [] mode = "Base256" -> 1
      [] mode = "Edifact" -> 2
      [] mode = "X12" -> 3
      [] mode = "C40" -> 4
      [] mode = "Text" -> 5

\* the targets of add_switches, in its order
SWITCH_ORDER == <<"Ascii", "Base256", "Edifact", "X12", "Text", "C40">>

\* add_switch!: the plan of the target mode on the context after the unlatch
switch_plan(target, consumed, written) ==
    IF target = "Ascii" THEN plan_new("Ascii", consumed, written)
    ELSE IF target = "Base256" THEN base256_with_written(consumed, written + 1, 0)
    ELSE plan_new(target, consumed, written + 1)

\* add_switch!: the extra cost of the switch
cost_extra(target) == IF target = "Ascii" THEN 0 ELSE Frac_new(1, 1)

\* add_switches: only the enabled modes are switched to
switch_enabled(target, enabled_modes) == target \in enabled_modes

\* add_switches: the switches of the new plan, which starts the list when
\* it stands for the start of the encoding
switches_after(p, chars, as_start, target) ==
    IF as_start THEN <<<<chars, target>>>>
    ELSE Append(p.switches, <<chars, target>>)

\* add_switch!
add_switch(acc, p, target, chars, as_start, enabled_modes, d, nds) ==
    IF target = p.mode \/ ~switch_enabled(target, enabled_modes) THEN acc
    ELSE LET r == plan_step(switch_plan(target, p.consumed, write_unlatch(p)), d, nds)
         IN  IF r.none THEN acc
             ELSE [acc EXCEPT !.list = Append(@,
                      [r.plan EXCEPT !.extra = mode_switch_cost(p) + cost_extra(target),
                                     !.start = IF as_start THEN target ELSE p.start,
                                     !.switches = switches_after(p, chars, as_start, target)])]

\* add_switches: the targets from the k-th on
add_switches_from(k, acc, p, chars, as_start, enabled_modes, d, nds) ==
    ForLoop(LAMBDA st, i : add_switch(st, p, SWITCH_ORDER[i], chars, as_start,
                                      enabled_modes, d, nds),
            k, Len(SWITCH_ORDER), acc)

\* GenericPlan::add_switches
add_switches(p, acc, chars, as_start, enabled_modes, d, nds) ==
    IF mode_switch_cost(p) = -1 THEN acc
    ELSE IF unlatch_panics(p) THEN [acc EXCEPT !.panic = TRUE]
    ELSE add_switches_from(1, acc, p, chars, as_start, enabled_modes, d, nds)

\* sort_unstable_by_key(Plan::cost): the place of the k-th plan; plans of
\* equal cost keep their order or swap it, as tie says
sort_place(costs, k, tie) ==
    Cardinality({j \in 1..Len(costs) :
        \/ costs[j] < costs[k]
        \/ costs[j] = costs[k] /\ (IF tie THEN j > k ELSE j < k)}) + 1

sort_by_cost(list, costs, tie) ==
    Vec([n \in 1..Len(list) |->
            list[CHOOSE k \in 1..Len(list) : sort_place(costs, k, tie) = n]])

\* the costs of the plans of a list
costs_of(list, d, nds) == Vec([k \in 1..Len(list) |-> plan_cost(list[k], d, nds)])

\* remove_hopeless_cases: only keep the first plan of every
\* (start mode, current mode)
first_of_pair(list) ==
    SelectSeq(Vec([k \in 1..Len(list) |->
                     [plan |-> list[k],
                      seen |-> \E j \in 1..(k - 1) :
                                  /\ list[j].start = list[k].start
                                  /\ list[j].mode = list[k].mode]]),
              LAMBDA x : ~x.seen)

plans_of(marked) == Vec([k \in 1..Len(marked) |-> marked[k].plan])

\* list.remove(at), at counted from 0
remove_at(list, at) == SubSeq(list, 1, at) \o SubSeq(list, at + 2, Len(list))

\* remove_hopeless_cases: for i in start + 1..list.len()
RECURSIVE hopeless_inner(_, _, _, _, _, _, _)
hopeless_inner(first, list, i, hi, removed, d, nds) ==
    IF i >= hi THEN [list |-> list, uncomparable |-> FALSE]
    ELSE IF cost_for_switching_to(first, list[i - removed + 1].mode, d, nds) = -1
    THEN [list |-> list, uncomparable |-> TRUE]
    ELSE IF cost_for_switching_to(first, list[i - removed + 1].mode, d, nds)
            < plan_cost(list[i - removed + 1], d, nds)
    THEN hopeless_inner(first, remove_at(list, i - removed), i + 1, hi, removed + 1, d, nds)
    ELSE hopeless_inner(first, list, i + 1, hi, removed, d, nds)

\* remove_hopeless_cases: while start + 1 < list.len()
RECURSIVE hopeless_outer(_, _, _, _)
hopeless_outer(list, start, d, nds) ==
    IF start + 1 < Len(list)
    THEN LET r == hopeless_inner(list[start + 1], list, start + 1, Len(list), 0, d, nds)
         IN  IF r.uncomparable THEN hopeless_outer(r.list, start + 1, d, nds)
             ELSE r.list
    ELSE list

\* remove_hopeless_cases
remove_hopeless_cases(list, d, nds, tie) ==
    hopeless_outer(
        plans_of(first_of_pair(sort_by_cost(list, costs_of(list, d, nds), tie))),
        0, d, nds)

\* GenericPlan::for_mode: the switches of the plan optimize starts from
start_switches(mode, data_len) == <<<<data_len, mode>>>>

\* GenericPlan::for_mode(mode, data, written, symbol_list)
for_mode(mode, d, written) ==
    [(IF mode = "Base256" THEN base256_with_written(0, written, 0)
      ELSE plan_new(mode, 0, written))
     EXCEPT !.switches = start_switches(mode, Len(d))]

\* optimize: the plan made a step
round_push(acc, r) ==
    [acc EXCEPT !.list = Append(@, r.plan),
                !.at_end = @ \/ r.end,
                !.panic = @ \/ r.plan.panic \/ (acc.at_end /\ ~r.end)]

\* optimize: the body of for mut plan in plans.drain(0..)
round_plan(acc, copy, r, chars, as_start, enabled_modes, d, nds) ==
    IF r.none THEN add_switches(copy, acc, chars, as_start, enabled_modes, d, nds)
    ELSE IF ~r.unbeatable /\ ~r.end
    THEN add_switches(copy, round_push(acc, r), chars, as_start, enabled_modes, d, nds)
    ELSE round_push(acc, r)

\* optimize: for mut plan in plans.drain(0..)
round_plans(plans, k, acc, chars, as_start, enabled_modes, d, nds) ==
    ForLoop(LAMBDA st, i : round_plan(st, plans[i], plan_step(plans[i], d, nds),
                                      chars, as_start, enabled_modes, d, nds),
            k, Len(plans), acc)

\* the greatest EncodationType::index of the switches of a plan; -1 is the
\* None that optimize unwraps
max_enc(p) ==
    IF p.switches = <<>> THEN -1
    ELSE CHOOSE m \in {mode_index(p.switches[k][2]) : k \in 1..Len(p.switches)} :
            \A k \in 1..Len(p.switches) : mode_index(p.switches[k][2]) <= m

\* the key of min_by_key in optimize
plan_key(p, d, nds) == <<Frac_ceil(plan_cost(p, d, nds)), max_enc(p), Len(p.switches)>>

\* the order of the keys
key_less(a, b) ==
    \/ a[1] < b[1]
    \/ a[1] = b[1] /\ a[2] < b[2]
    \/ a[1] = b[1] /\ a[2] = b[2] /\ a[3] < b[3]

\* Iterator::max_by_key: the last of the greatest plans
max_by_key(list, keys) ==
    list[SetMax({k \in 1..Len(list) : \A j \in 1..Len(list) : ~key_less(keys[k], keys[j])})]

\* Iterator::min_by_key: the first of the least plans
min_by_key(list, keys) ==
    list[SetMin({k \in 1..Len(list) : \A j \in 1..Len(list) : ~key_less(keys[j], keys[k])})]

keys_of(list, d, nds) == Vec([k \in 1..Len(list) |-> plan_key(list[k], d, nds)])

\* optimize: remove a "switch" to ASCII if we are at the very beginning
drop_first_ascii(switches, written, data_len) ==
    IF written = 0 /\ switches[1] = <<data_len, "Ascii">> THEN Tail(switches)
    ELSE switches

\* optimize: all plans are at the end of data, pick the best one
pick_best(list, written, d, nds) ==
    LET best == min_by_key(list, keys_of(list, d, nds))
    IN  [none |-> FALSE,
         panic |-> \E k \in 1..Len(list) : list[k].switches = <<>>,
         switches |-> drop_first_ascii(Append(best.switches, <<0, best.mode>>),
                                       written, Len(d)),
         cost |-> Frac_ceil(plan_cost(best, d, nds))]

planner_panic == [none |-> FALSE, panic |-> TRUE, switches |-> <<>>, cost |-> 0]

planner_none == [none |-> TRUE, panic |-> FALSE, switches |-> <<>>, cost |-> 0]

\* optimize: the loop returns out
optimize_return(out) == [done |-> TRUE, plans |-> <<>>, out |-> out]

\* optimize: what is done with the plans of a round after the pruning
optimize_next(acc, pruned, written, d, nds) ==
    IF pruned = <<>> THEN optimize_return(planner_none)
    ELSE IF acc.at_end THEN optimize_return(pick_best(pruned, written, d, nds))
    ELSE [done |-> FALSE, plans |-> pruned, out |-> planner_panic]

\* optimize: what is done with the plans of a round
optimize_pruning(acc, written, d, nds, tie) ==
    IF acc.panic THEN optimize_return(planner_panic)
    ELSE optimize_next(acc, remove_hopeless_cases(acc.list, d, nds, tie), written, d, nds)

\* optimize: one round of for iteration in 0usize.., on the plans of st
\* unless the loop has returned
optimize_round(st, iteration, written, enabled_modes, d, nds, tie) ==
    IF st.done THEN st
    ELSE optimize_pruning(
             round_plans(st.plans, 1, [list |-> <<>>, panic |-> FALSE, at_end |-> FALSE],
                         Len(d) - iteration, iteration = 0, enabled_modes, d, nds),
             written, d, nds, tie)

\* optimize: for iteration in 0usize..; data.len() - iteration overflows after
\* the round data.len()
optimize_rounds(plans, written, enabled_modes, d, nds, tie) ==
    ForLoop(LAMBDA st, iteration :
                optimize_round(st, iteration, written, enabled_modes, d, nds, tie),
            0, Len(d), [done |-> FALSE, plans |-> plans, out |-> planner_panic]).out

\* the plans to start from when the mode is taken whether enabled or not
start_plans_in_mode(mode, written, enabled_modes, d, nds) ==
    [list |-> <<for_mode(mode, d, written)>>, panic |-> FALSE]

\* optimize: the plans to start from
start_plans(mode, written, enabled_modes, d, nds) ==
    IF mode \in enabled_modes
    THEN [list |-> <<for_mode(mode, d, written)>>, panic |-> FALSE]
    ELSE add_switches(for_mode(mode, d, written), [list |-> <<>>, panic |-> FALSE],
                      Len(d), TRUE, enabled_modes, d, nds)

\* planner::optimize
optimize(d, written, mode, nds, enabled_modes, tie) ==
    LET start == start_plans(mode, written, enabled_modes, d, nds)
    IN  IF start.panic THEN planner_panic
        ELSE optimize_rounds(start.list, written, enabled_modes, d, nds, tie)

-----------------------------------------------------------------------------
(* Macro detection on its own: an encoder is made for an input and          *)
(* use_macro_if_possible is called on it, as encode_data does when          *)
(* use_macros is set.                                                       *)

\* the longest body between a head and a trail
MaxBody == 2

\* bytes of the bodies: '0', 'A' and the two bytes of the trail
MacroBytes == {48, 65, 30, 4}

MacroBodies == UNION {[1..n -> MacroBytes] : n \in 0..MaxBody}

\* the two heads, a head cut short, and no head
MacroPrefixes == {<<>>, MACRO05_HEAD, MACRO06_HEAD, <<91, 41, 62, 30, 48, 53>>}

MacroSuffixes == {<<>>, MACRO_TRAIL}

MacroInputs ==
    {p \o b \o t : p \in MacroPrefixes, b \in MacroBodies, t \in MacroSuffixes}

MacroInit ==
    /\ size = "None"
    /\ RSIdle
    /\ PlIdle
    /\ \E x \in MacroInputs :
          /\ enc_args = [data |-> x, symbol_list |-> SymbolList_default,
                         eci |-> NoEci, enabled_modes |-> AllModes,
                         use_macros |-> TRUE]
          /\ encoder = with_size(x, SymbolList_default, AllModes)
    /\ enc_result = <<>>
    /\ dec_result = <<>>
    /\ enc_pc = "new"

UseMacro ==
    /\ enc_pc = "new"
    /\ enc_args.use_macros
    /\ encoder' = use_macro_if_possible(encoder)
    /\ enc_pc' = "macro"
    /\ UNCHANGED <<size, enc_args, enc_result, dec_result>>
    /\ UNCHANGED <<rsVars, plVars>>

SpecMacro == MacroInit /\ [][UseMacro]_vars

\* the input has the head and the trail
is_macro(x, head) == starts_with(x, head) /\ ends_with(x, MACRO_TRAIL)

\* the input between the head and the trail
macro_inner(x, head) == SubSeq(x, Len(head) + 1, Len(x) - Len(MACRO_TRAIL))

\* C10: with macro detection on, the encoder emits codeword 236 (237) and
\* goes on with the inner substring exactly when the input starts with the
\* 05 (06) head and ends with the trail; every other input is kept in full
\* and gets no macro codeword.
C10_MacroExactly ==
    enc_pc = "macro" =>
        LET x == enc_args.data
        IN  /\ ~encoder.panic
            /\ IF is_macro(x, MACRO05_HEAD)
               THEN encoder.codewords = <<MACRO05>>
                    /\ encoder.data = macro_inner(x, MACRO05_HEAD)
               ELSE IF is_macro(x, MACRO06_HEAD)
               THEN encoder.codewords = <<MACRO06>>
                    /\ encoder.data = macro_inner(x, MACRO06_HEAD)
               ELSE encoder.codewords = <<>> /\ encoder.data = x

\* an input with the 05 head and without the trail has been through the
\* macro detection
C10_Witness ==
    /\ enc_pc = "macro"
    /\ starts_with(enc_args.data, MACRO05_HEAD)
    /\ ~ends_with(enc_args.data, MACRO_TRAIL)

-----------------------------------------------------------------------------
(* The encoder run, encodation/mod.rs and the encoders of the six modes.    *)
(* The encoder is the record of with_size; a failed assertion, an index out *)
(* of range or an arithmetic overflow sets its field panic, a returned Err  *)
(* its field err, and every later step leaves such an encoder as it is.     *)

LATCH_C40 == 230

LATCH_BASE256 == 231

LATCH_X12 == 238

LATCH_TEXT == 239

LATCH_EDIFACT == 240

PAD == 129

UPPER_SHIFT == 235

\* the encoder has panicked or returned an error
halted(e) == e.panic \/ e.err # "None"

\* EncodationType::latch_from_ascii
latch_from_ascii(mode) ==
    CASE mode = "C40" -> LATCH_C40
      [] mode = "Text" -> LATCH_TEXT
      [] mode = "X12" -> LATCH_X12
      [] mode = "Edifact" -> LATCH_EDIFACT
      [] mode = "Base256" -> LATCH_BASE256

\* the last symbol of the list that is big enough, instead of the first
last_symbol_big_enough_for(symbol_list, size_needed) ==
    IF \E k \in 1..Len(symbol_list) : num_data_codewords(symbol_list[k]) >= size_needed
    THEN symbol_list[SetMax({k \in 1..Len(symbol_list) :
                                num_data_codewords(symbol_list[k]) >= size_needed})]
    ELSE "None"

\* SymbolList::first_symbol_big_enough_for; "None" when no symbol is
first_symbol_big_enough_for(symbol_list, size_needed) ==
    IF \E k \in 1..Len(symbol_list) : num_data_codewords(symbol_list[k]) >= size_needed
    THEN symbol_list[SetMin({k \in 1..Len(symbol_list) :
                                num_data_codewords(symbol_list[k]) >= size_needed})]
    ELSE "None"

\* the least capacity of the symbols of a list, instead of the greatest
min_capacity(symbol_list) ==
    IF symbol_list = <<>> THEN 0
    ELSE SetMin({capacity(symbol_list[k]).max : k \in 1..Len(symbol_list)})

\* SymbolList::max_capacity
max_capacity(symbol_list) ==
    IF symbol_list = <<>> THEN 0
    ELSE CHOOSE m \in {capacity(symbol_list[k]).max : k \in 1..Len(symbol_list)} :
            \A k \in 1..Len(symbol_list) : capacity(symbol_list[k]).max <= m

\* SymbolList::upper_limit_for_number_of_codewords; -1 is None
upper_limit_for_number_of_codewords(symbol_list, input_len) ==
    IF Len(symbol_list) = 1 THEN num_data_codewords(symbol_list[1])
    ELSE IF \E k \in 1..Len(symbol_list) : capacity(symbol_list[k]).min >= input_len
    THEN num_data_codewords(symbol_list[
             SetMin({k \in 1..Len(symbol_list) :
                        capacity(symbol_list[k]).min >= input_len})])
    ELSE -1

\* GenericDataEncoder::symbol_for
symbol_for(e, extra_codewords) ==
    first_symbol_big_enough_for(e.symbol_list, Len(e.codewords) + extra_codewords)

\* EncodingContext::symbol_size_left; -1 is None
symbol_size_left(e, extra_codewords) ==
    IF symbol_for(e, extra_codewords) = "None" THEN -1
    ELSE num_data_codewords(symbol_for(e, extra_codewords))
            - (Len(e.codewords) + extra_codewords)

\* the ? on symbol_size_left(..).ok_or(..): the encoder with the error
not_enough_space(e) == [e EXCEPT !.err = "TooMuchOrIllegalData"]

\* EncodingContext::eat, called with characters left
eat(e) == [e EXCEPT !.data = Tail(@)]

\* EncodingContext::backup: the offset is taken in input
backup(e, steps) ==
    IF (Len(e.input) - Len(e.data)) - steps < 0 THEN [e EXCEPT !.panic = TRUE]
    ELSE [e EXCEPT !.data = SubSeq(e.input,
                                   (Len(e.input) - Len(e.data)) - steps + 1,
                                   Len(e.input))]

\* EncodingContext::push
push(e, ch) == [e EXCEPT !.codewords = Append(@, ch)]

\* EncodingContext::replace
replace(e, index, ch) ==
    IF index >= Len(e.codewords) THEN [e EXCEPT !.panic = TRUE]
    ELSE [e EXCEPT !.codewords[index + 1] = ch]

\* EncodingContext::insert
insert(e, index, ch) ==
    IF index > Len(e.codewords) THEN [e EXCEPT !.panic = TRUE]
    ELSE [e EXCEPT !.codewords = SubSeq(@, 1, index) \o <<ch>>
                                    \o SubSeq(@, index + 1, Len(@))]

\* EncodingContext::set_ascii_until_end
set_ascii_until_end(e) ==
    [e EXCEPT !.encodation = "Ascii", !.planned_switches = <<<<0, "Ascii">>>>]

\* maybe_switch_mode: the mode to go on with
switch_target(e) ==
    IF Len(e.data) > 0 /\ Len(e.data) = e.planned_switches[1][1]
    THEN e.planned_switches[1][2]
    ELSE e.encodation

\* the planned switches with the switch that is due left in the list
switches_kept(e) == e.planned_switches

\* maybe_switch_mode: the planned switches, the first one taken if it is due
switches_left(e) ==
    IF Len(e.data) > 0 /\ Len(e.data) = e.planned_switches[1][1]
    THEN Tail(e.planned_switches)
    ELSE e.planned_switches

\* EncodingContext::maybe_switch_mode: the encoder afterwards
maybe_switch_mode(e) ==
    IF e.planned_switches = <<>> THEN [e EXCEPT !.panic = TRUE]
    ELSE IF Len(e.data) < e.planned_switches[1][1] THEN [e EXCEPT !.panic = TRUE]
    ELSE IF switch_target(e) = e.encodation
    THEN [e EXCEPT !.planned_switches = switches_left(e)]
    ELSE [e EXCEPT !.planned_switches = switches_left(e),
                   !.encodation = switch_target(e),
                   !.new_mode = IF switch_target(e) = "Ascii" THEN @
                                ELSE latch_from_ascii(switch_target(e))]

\* EncodingContext::maybe_switch_mode: its result, was the mode switched
mode_switched(e) ==
    /\ e.planned_switches # <<>>
    /\ Len(e.data) >= e.planned_switches[1][1]
    /\ switch_target(e) # e.encodation

\* ascii::two_digits_coming
two_digits_coming(rest) ==
    Len(rest) >= 2 /\ is_ascii_digit(rest[1]) /\ is_ascii_digit(rest[2])

\* ascii::encode: the codewords of one character
ascii_codewords(ch) == IF ch <= 127 THEN <<ch + 1>> ELSE <<UPPER_SHIFT, ch - 128 + 1>>

\* ascii::encode
RECURSIVE ascii_encode(_)
ascii_encode(e) ==
    IF two_digits_coming(e.data)
    THEN ascii_encode([e EXCEPT
             !.codewords = Append(@, (e.data[1] - 48) * 10 + (e.data[2] - 48) + 130),
             !.data = SubSeq(@, 3, Len(@))])
    ELSE IF mode_switched(e) \/ halted(maybe_switch_mode(e)) \/ e.data = <<>>
    THEN maybe_switch_mode(e)
    ELSE ascii_encode([maybe_switch_mode(e) EXCEPT
             !.codewords = @ \o ascii_codewords(e.data[1]),
             !.data = Tail(@)])

\* base256::randomize_255_state
randomize_255_state(ch, pos) ==
    IF ch + ((149 * pos) % 255) + 1 <= 255
    THEN ch + ((149 * pos) % 255) + 1
    ELSE ch + ((149 * pos) % 255) + 1 - 256

\* base256::write_length: for i in 0..data_written
randomize_from(e, start, data_written) ==
    IF start + data_written > Len(e.codewords) THEN [e EXCEPT !.panic = TRUE]
    ELSE [e EXCEPT !.codewords =
             Vec([k \in 1..Len(e.codewords) |->
                     IF k > start /\ k <= start + data_written
                     THEN randomize_255_state(e.codewords[k], k)
                     ELSE e.codewords[k]])]

\* base256::write_length: the length is written
write_length_field(e, start, data_count) ==
    IF data_count < 0 THEN [e EXCEPT !.panic = TRUE]
    ELSE IF data_count <= 249
    THEN randomize_from(replace(e, start, data_count), start, data_count + 1)
    ELSE IF data_count <= 1555
    THEN randomize_from(
             insert(replace(e, start, (data_count \div 250) + 249),
                    start + 1, data_count % 250),
             start, data_count + 2)
    ELSE [e EXCEPT !.panic = TRUE]

\* base256::write_length
write_length(e, start) ==
    IF symbol_size_left(e, 0) = -1 THEN not_enough_space(e)
    ELSE IF e.data # <<>> \/ symbol_size_left(e, 0) > 0
    THEN write_length_field(e, start, Len(e.codewords) - start - 1)
    ELSE randomize_from(e, start, Len(e.codewords) - start)

\* base256::encode: the length is written and the mode left
base256_finish(e, start) ==
    IF halted(write_length(e, start)) \/ e.data # <<>> THEN write_length(e, start)
    ELSE set_ascii_until_end(write_length(e, start))

\* base256::encode: the loop returns with the encoder e
base256_return(e) == [done |-> TRUE, e |-> e]

\* base256::encode: a character was pushed and more are left, w is the encoder
base256_pushed(w, start) ==
    IF halted(maybe_switch_mode(w)) THEN base256_return(maybe_switch_mode(w))
    ELSE IF mode_switched(w)
    THEN base256_return(base256_finish(maybe_switch_mode(w), start))
    ELSE [done |-> FALSE, e |-> maybe_switch_mode(w)]

\* base256::encode: one round of the loop, unless it has returned
base256_round(st, start) ==
    IF st.done THEN st
    ELSE IF st.e.data = <<>> THEN base256_return(base256_finish(st.e, start))
    ELSE IF Len(st.e.data) = 1
    THEN base256_return(base256_finish(push(eat(st.e), st.e.data[1]), start))
    ELSE base256_pushed(push(eat(st.e), st.e.data[1]), start)

\* base256::encode: loop; it returns when no characters are left at the latest
base256_loop(e, start) ==
    ForLoop(LAMBDA st, i : base256_round(st, start),
            0, Len(e.data), [done |-> FALSE, e |-> e]).e

\* base256::encode
base256_encode(e) == base256_loop(push(e, 0), Len(e.codewords))

SHIFT1 == 0

SHIFT2 == 1

SHIFT3 == 2

C40_UPPER_SHIFT == 30

\* c40::low_ascii_to_c40_symbols
low_ascii_to_c40_symbols(ch) ==
    IF ch = 32 THEN <<3>>
    ELSE IF ch \in 48..57 THEN <<ch - 48 + 4>>
    ELSE IF ch \in 65..90 THEN <<ch - 65 + 14>>
    ELSE IF ch \in 0..31 THEN <<SHIFT1, ch>>
    ELSE IF ch \in 33..47 THEN <<SHIFT2, ch - 33>>
    ELSE IF ch \in 58..64 THEN <<SHIFT2, ch - 58 + 15>>
    ELSE IF ch \in 91..95 THEN <<SHIFT2, ch - 91 + 22>>
    ELSE <<SHIFT3, ch - 96>>

\* text::low_ascii_to_text_symbols
low_ascii_to_text_symbols(ch) ==
    IF ch \in 65..90 THEN low_ascii_to_c40_symbols(ch - 65 + 97)
    ELSE IF ch \in 97..122 THEN low_ascii_to_c40_symbols(ch - 97 + 65)
    ELSE low_ascii_to_c40_symbols(ch)

\* the low_ascii_write of encode_generic
low_ascii_write(text, ch) ==
    IF text THEN low_ascii_to_text_symbols(ch) ELSE low_ascii_to_c40_symbols(ch)

\* c40::to_vals: the values pushed for a character
to_vals(text, ch) ==
    IF ch <= 127 THEN low_ascii_write(text, ch)
    ELSE <<SHIFT2, C40_UPPER_SHIFT>> \o low_ascii_write(text, ch - 128)

\* c40::write_three_values
write_three_values(e, c1, c2, c3) ==
    push(push(e, (1600 * c1 + 40 * c2 + c3 + 1) \div 256),
         (1600 * c1 + 40 * c2 + c3 + 1) % 256)

\* encode_generic: while buf.len() >= 3
RECURSIVE write_triples(_, _)
write_triples(e, buf) ==
    IF Len(buf) < 3 THEN e
    ELSE write_triples(write_three_values(e, buf[1], buf[2], buf[3]),
                       SubSeq(buf, 4, Len(buf)))

\* encode_generic: what while buf.len() >= 3 leaves in buf
buf_left(buf) == SubSeq(buf, Len(buf) - (Len(buf) % 3) + 1, Len(buf))

\* c40::handle_end: the values of buf filled up to three
buf_filled(buf) ==
    IF Len(buf) = 1 THEN <<buf[1], SHIFT2, C40_UPPER_SHIFT>>
    ELSE <<buf[1], buf[2], SHIFT2>>

\* c40::handle_end: from let chars_left = ctx.characters_left() on
c40_end_unlatch(e, mode_switch) ==
    IF Len(e.data) > 0
    THEN IF Len(e.data) = 2 /\ two_digits_coming(e.data)
         THEN IF symbol_size_left(e, 1) = -1 THEN not_enough_space(e)
              ELSE IF symbol_size_left(e, 1) >= 1
              THEN push(set_ascii_until_end(e), UNLATCH)
              ELSE set_ascii_until_end(e)
         ELSE push(e, UNLATCH)
    ELSE IF symbol_size_left(e, 0) = -1 THEN not_enough_space(e)
    ELSE IF symbol_size_left(e, 0) > 0
    THEN IF mode_switch THEN push(e, UNLATCH)
         ELSE set_ascii_until_end(push(e, UNLATCH))
    ELSE e

\* c40::handle_end: from if !buf.is_empty() on
c40_end_rest(e, buf, mode_switch) ==
    IF buf = <<>> THEN c40_end_unlatch(e, mode_switch)
    ELSE IF mode_switch
    THEN c40_end_unlatch(
             write_three_values(e, buf_filled(buf)[1], buf_filled(buf)[2],
                                buf_filled(buf)[3]),
             mode_switch)
    ELSE c40_end_unlatch(
             set_ascii_until_end(
                 write_three_values(e, buf_filled(buf)[1], buf_filled(buf)[2],
                                    buf_filled(buf)[3])),
             mode_switch)

\* c40::handle_end: the cases b), c) and d) at the end of the data
c40_end_of_data(e, last_ch, buf) ==
    IF symbol_size_left(e, Len(buf)) = -1 THEN not_enough_space(e)
    ELSE IF symbol_size_left(e, Len(buf)) + Len(buf) = 2 /\ Len(buf) = 2
    THEN write_three_values(e, buf[1], buf[2], SHIFT1)
    ELSE IF symbol_size_left(e, Len(buf)) + Len(buf) = 2 /\ Len(buf) = 1
    THEN backup(set_ascii_until_end(push(e, UNLATCH)), 1)
    ELSE IF /\ symbol_size_left(e, Len(buf)) + Len(buf) = 1
            /\ Len(buf) = 1
            /\ encoding_size(<<last_ch>>) = 1
    THEN backup(set_ascii_until_end(e), 1)
    ELSE c40_end_rest(e, buf, FALSE)

\* c40::handle_end
c40_handle_end(e, last_ch, buf) ==
    IF halted(e) THEN e
    ELSE IF Len(buf) > 2 THEN [e EXCEPT !.panic = TRUE]
    ELSE IF e.data # <<>> THEN c40_end_rest(e, buf, TRUE)
    ELSE c40_end_of_data(e, last_ch, buf)

\* c40::encode_generic: while let Some(ch) = ctx.eat()
RECURSIVE c40_loop(_, _, _, _)
\* encode_generic: the character ch was eaten and its values written, w is the
\* encoder and buf the values left
c40_written(w, buf, ch, text) ==
    IF halted(maybe_switch_mode(w)) THEN maybe_switch_mode(w)
    ELSE IF mode_switched(w) THEN c40_handle_end(maybe_switch_mode(w), ch, buf)
    ELSE c40_loop(maybe_switch_mode(w), buf, ch, text)

c40_loop(e, buf, last_ch, text) ==
    IF e.data = <<>> THEN c40_handle_end(e, last_ch, buf)
    ELSE IF buf = <<>> /\ two_digits_coming(e.data) /\ Len(e.data) = 2
    THEN c40_handle_end(backup(eat(e), 1), last_ch, buf)
    ELSE c40_written(write_triples(eat(e), buf \o to_vals(text, e.data[1])),
                     buf_left(buf \o to_vals(text, e.data[1])), e.data[1], text)

\* c40::encode_generic
encode_generic(e, text) == c40_loop(e, <<>>, 0, text)

\* x12::enc
x12_enc(ch) ==
    IF ch = 13 THEN 0
    ELSE IF ch = 42 THEN 1
    ELSE IF ch = 62 THEN 2
    ELSE IF ch = 32 THEN 3
    ELSE IF ch \in 48..57 THEN ch - 48 + 4
    ELSE ch - 65 + 14

\* x12::encode: if ctx.has_more_characters() || ctx.symbol_size_left(0)? > 0
x12_unlatch(e, switch) ==
    IF e.data = <<>> /\ symbol_size_left(e, 0) = -1 THEN not_enough_space(e)
    ELSE IF e.data # <<>> \/ symbol_size_left(e, 0) > 0
    THEN IF switch THEN push(e, UNLATCH)
         ELSE push(set_ascii_until_end(e), UNLATCH)
    ELSE e

\* x12::encode: after the loop
x12_end(e, switch) ==
    IF Len(e.data) <= 2 /\ encoding_size(e.data) = 1
    THEN IF symbol_size_left(e, 1) = -1 THEN not_enough_space(e)
         ELSE IF symbol_size_left(e, 1) = 0 THEN set_ascii_until_end(e)
         ELSE x12_unlatch(e, switch)
    ELSE x12_unlatch(e, switch)

\* x12::encode: while ctx.characters_left() >= 3; enc is unreachable!() for
\* a character that is not native
RECURSIVE x12_loop(_)
\* x12::encode: three characters were written, w is the encoder
x12_written(w) ==
    IF halted(maybe_switch_mode(w)) THEN maybe_switch_mode(w)
    ELSE IF mode_switched(w) THEN x12_end(maybe_switch_mode(w), TRUE)
    ELSE x12_loop(maybe_switch_mode(w))

x12_loop(e) ==
    IF Len(e.data) < 3 THEN x12_end(e, FALSE)
    ELSE IF \E k \in 1..3 : ~is_native_x12(e.data[k]) THEN [e EXCEPT !.panic = TRUE]
    ELSE x12_written(write_three_values([e EXCEPT !.data = SubSeq(@, 4, Len(@))],
                                        x12_enc(e.data[1]), x12_enc(e.data[2]),
                                        x12_enc(e.data[3])))

\* x12::encode
x12_encode(e) == x12_loop(e)

EDIFACT_UNLATCH == 31

\* s.get(k).cloned().unwrap_or(0) & 0b11_1111
edifact_get(s, k) == IF k < Len(s) THEN s[k + 1] % 64 ELSE 0

\* edifact::write4; the shifts are shifts of a u8
write4(e, s) ==
    [e EXCEPT !.codewords =
        @ \o <<((s[1] * 4) % 256) + (edifact_get(s, 1) \div 16)>>
          \o (IF Len(s) >= 2
              THEN <<((edifact_get(s, 1) * 16) % 256) + (edifact_get(s, 2) \div 4)>>
              ELSE <<>>)
          \o (IF Len(s) >= 3
              THEN <<((edifact_get(s, 2) * 64) % 256) + edifact_get(s, 3)>>
              ELSE <<>>)]

\* edifact::handle_end: the rest fits in ASCII without an UNLATCH
edifact_ascii_end(e, symbols) ==
    /\ Len(symbols) + Len(e.data) <= 4
    /\ encoding_size(symbols \o e.data) <= 2
    /\ symbol_size_left(e, encoding_size(symbols \o e.data)) # -1
    /\ symbol_size_left(e, encoding_size(symbols \o e.data))
           + encoding_size(symbols \o e.data) <= 2
    /\ encoding_size(symbols \o e.data)
           <= symbol_size_left(e, encoding_size(symbols \o e.data))
                  + encoding_size(symbols \o e.data)

\* edifact::handle_end: symbols.is_empty()
edifact_end_empty(e) ==
    IF e.data # <<>> THEN push(e, EDIFACT_UNLATCH * 4)
    ELSE IF symbol_size_left(e, 0) = -1 THEN not_enough_space(e)
    ELSE IF symbol_size_left(e, 0) = 0 THEN e
    ELSE IF symbol_size_left(e, 0) <= 2 THEN [e EXCEPT !.panic = TRUE]
    ELSE set_ascii_until_end(push(e, EDIFACT_UNLATCH * 4))

\* edifact::handle_end: symbols are left
edifact_end_symbols(e, symbols) ==
    IF Len(symbols) > 3 THEN [e EXCEPT !.panic = TRUE]
    ELSE IF e.data # <<>> THEN write4(e, Append(symbols, EDIFACT_UNLATCH))
    ELSE IF symbol_size_left(e, Len(symbols)) = -1 THEN not_enough_space(e)
    ELSE IF symbol_size_left(e, Len(symbols)) > 0 \/ Len(symbols) = 3
    THEN write4(set_ascii_until_end(e), Append(symbols, EDIFACT_UNLATCH))
    ELSE write4(e, symbols)

\* edifact::handle_end
edifact_handle_end(e, symbols) ==
    IF halted(e) THEN e
    ELSE IF edifact_ascii_end(e, symbols)
    THEN set_ascii_until_end(backup(e, Len(symbols)))
    ELSE IF symbols = <<>> THEN edifact_end_empty(e)
    ELSE edifact_end_symbols(e, symbols)

\* edifact::encode: the character is eaten
edifact_eaten(e, symbols) ==
    IF Len(symbols) = 3 THEN write4(eat(e), Append(symbols, e.data[1]))
    ELSE eat(e)

\* edifact::encode: the symbols after the character
edifact_symbols(e, symbols) ==
    IF Len(symbols) = 3 THEN <<>> ELSE Append(symbols, e.data[1])

\* edifact::encode: while let Some(ch) = ctx.eat()
RECURSIVE edifact_loop(_, _)
edifact_loop(e, symbols) ==
    IF e.data = <<>> THEN edifact_handle_end(e, symbols)
    ELSE IF halted(maybe_switch_mode(edifact_eaten(e, symbols)))
    THEN maybe_switch_mode(edifact_eaten(e, symbols))
    ELSE IF mode_switched(edifact_eaten(e, symbols))
    THEN edifact_handle_end(maybe_switch_mode(edifact_eaten(e, symbols)),
                            edifact_symbols(e, symbols))
    ELSE edifact_loop(maybe_switch_mode(edifact_eaten(e, symbols)),
                      edifact_symbols(e, symbols))

\* edifact::encode that returns at once, with nothing eaten
edifact_stall(e) == e

\* edifact::encode
edifact_encode(e) == edifact_loop(e, <<>>)

\* EncodationType::encode
encode_mode(e) ==
    CASE e.encodation = "Ascii" -> ascii_encode(e)
      [] e.encodation = "C40" -> encode_generic(e, FALSE)
      [] e.encodation = "Text" -> encode_generic(e, TRUE)
      [] e.encodation = "X12" -> x12_encode(e)
      [] e.encodation = "Edifact" -> edifact_encode(e)
      [] e.encodation = "Base256" -> base256_encode(e)

\* codewords: if let Some(new_mode) = self.new_mode.take()
take_new_mode(e) ==
    IF e.new_mode = -1 THEN e
    ELSE [e EXCEPT !.codewords = Append(@, e.new_mode), !.new_mode = -1]

\* codewords: while self.has_more_characters()
RECURSIVE encode_loop(_, _)
\* codewords: the mode has encoded, w is the encoder and len the number of
\* codewords before
encode_round(w, len, no_write_run) ==
    IF halted(w) THEN w
    ELSE IF Len(w.codewords) - len > 1 THEN encode_loop(w, 0)
    ELSE IF no_write_run + 1 > 5 THEN [w EXCEPT !.panic = TRUE]
    ELSE encode_loop(w, no_write_run + 1)

encode_loop(e, no_write_run) ==
    IF halted(e) \/ e.data = <<>> THEN e
    ELSE encode_round(encode_mode(take_new_mode(e)), Len(take_new_mode(e).codewords),
                      no_write_run)

\* the pad value that wraps at 255 instead of 254
pad_253_wrap_255(pos) ==
    IF PAD + ((149 * pos) % 253) + 1 <= 255
    THEN PAD + ((149 * pos) % 253) + 1
    ELSE PAD + ((149 * pos) % 253) + 1 - 255

\* add_padding: the "randomize 253 state" of the pad at position pos
pad_253(pos) ==
    IF PAD + ((149 * pos) % 253) + 1 <= 254
    THEN PAD + ((149 * pos) % 253) + 1
    ELSE PAD + ((149 * pos) % 253) + 1 - 254

\* add_padding: the PAD and the randomized pads up to n codewords
pads_up_to(cw, n) ==
    IF Len(cw) >= n THEN cw
    ELSE cw \o <<PAD>> \o Vec([k \in 1..(n - Len(cw) - 1) |-> pad_253(Len(cw) + 1 + k)])

\* GenericDataEncoder::add_padding
add_padding(e, s) ==
    IF num_data_codewords(s) - Len(e.codewords) = 0 THEN e
    ELSE IF e.encodation # "Ascii"
    THEN [e EXCEPT !.encodation = "Ascii",
                   !.codewords = pads_up_to(Append(@, UNLATCH), num_data_codewords(s))]
    ELSE [e EXCEPT !.codewords = pads_up_to(@, num_data_codewords(s))]

\* the data codeword counts of a symbol list, as the planner reads them
nds_of(symbol_list) ==
    Vec([k \in 1..Len(symbol_list) |-> num_data_codewords(symbol_list[k])])

\* the Result of codewords: Ok((codewords, symbol_size)), Err(err) or a panic;
\* emitted is the number of codewords and mode the encodation before add_padding
enc_ok(e, s) ==
    [panic |-> FALSE, err |-> "None", codewords |-> add_padding(e, s).codewords,
     size |-> s, emitted |-> Len(e.codewords), mode |-> e.encodation]

enc_failed(e) ==
    [panic |-> e.panic, err |-> IF e.panic THEN "None" ELSE e.err,
     codewords |-> <<>>, size |-> "None", emitted |-> 0, mode |-> e.encodation]

\* codewords: from let symbol_size = self.symbol_for(0) on
codewords_finish(e) ==
    IF halted(e) THEN enc_failed(e)
    ELSE IF symbol_for(e, 0) = "None" THEN enc_failed(not_enough_space(e))
    ELSE enc_ok(e, symbol_for(e, 0))

\* codewords: the planned switches are set and the input is encoded
codewords_planned(e, plan) ==
    IF plan.panic THEN enc_failed([e EXCEPT !.panic = TRUE])
    ELSE IF plan.none THEN enc_failed(not_enough_space(e))
    ELSE codewords_finish(encode_loop([e EXCEPT !.planned_switches = plan.switches], 0))

\* GenericDataEncoder::codewords; tie is how sort_unstable_by_key orders plans
\* of equal cost
encoder_codewords(e, tie) ==
    IF e.panic THEN enc_failed(e)
    ELSE IF e.symbol_list = <<>> THEN enc_failed([e EXCEPT !.err = "SymbolListEmpty"])
    ELSE IF Len(e.data) > max_capacity(e.symbol_list) THEN enc_failed(not_enough_space(e))
    ELSE IF upper_limit_for_number_of_codewords(e.symbol_list, Len(e.data)) = -1
    THEN enc_failed([e EXCEPT !.err = "SymbolListEmpty"])
    ELSE codewords_planned(e,
             optimize(e.data, Len(e.codewords), "Ascii", nds_of(e.symbol_list),
                      e.enabled_modes, tie))

\* data::encode_data: the encoder before codewords()
encode_data_eci(e, eci) == IF eci = NoEci \/ e.panic THEN e ELSE write_eci(e, eci)

encode_data_encoder(data, symbol_list, eci, enabled_modes, use_macros) ==
    IF use_macros
    THEN encode_data_eci(
             use_macro_if_possible(with_size(data, symbol_list, enabled_modes)), eci)
    ELSE encode_data_eci(with_size(data, symbol_list, enabled_modes), eci)

\* data::encode_data
encode_data(data, symbol_list, eci, enabled_modes, use_macros, tie) ==
    encoder_codewords(
        encode_data_encoder(data, symbol_list, eci, enabled_modes, use_macros), tie)

\* a DataMatrix of the data codewords alone, without the error correction
encode_eci_no_ecc(r) ==
    IF r.panic \/ r.err # "None"
    THEN [panic |-> r.panic, err |-> r.err, size |-> "None", codewords |-> <<>>,
          num_data_codewords |-> 0, emitted |-> 0, mode |-> r.mode]
    ELSE [panic |-> FALSE, err |-> "None", size |-> r.size, codewords |-> r.codewords,
          num_data_codewords |-> Len(r.codewords), emitted |-> r.emitted,
          mode |-> r.mode]

\* DataMatrixBuilder::encode_eci: the DataMatrix, or the error or the panic
encode_eci_of(r) ==
    IF r.panic \/ r.err # "None"
    THEN [panic |-> r.panic, err |-> r.err, size |-> "None", codewords |-> <<>>,
          num_data_codewords |-> 0, emitted |-> 0, mode |-> r.mode]
    ELSE [panic |-> FALSE, err |-> "None", size |-> r.size,
          codewords |-> r.codewords \o encode_error(r.codewords, r.size),
          num_data_codewords |-> Len(r.codewords), emitted |-> r.emitted,
          mode |-> r.mode]

encode_eci(data, symbol_list, eci, enabled_modes, use_macros, tie) ==
    encode_eci_of(encode_data(data, symbol_list, eci, enabled_modes, use_macros, tie))

\* DataMatrix::data_codewords
data_codewords(dm) == SubSeq(dm.codewords, 1, dm.num_data_codewords)

-----------------------------------------------------------------------------
(* Data decodation, decodation/mod.rs.  The Reader over the codewords cw is *)
(* the number i of codewords eaten; the state of decode_parts is the record *)
(* of i, out, ecis and mode, with err the error returned ("None": none).    *)
(* An arithmetic overflow panics in a build with overflow checks and wraps  *)
(* in a build without them: checks is the build, overflow that an operation *)
(* overflowed, panic that it panicked.                                      *)

\* decode_parts: the state before the loop, in the build with overflow checks
\* or in the one without
decode_start_in(checks) ==
    [i |-> 0, out |-> <<>>, ecis |-> <<>>, mode |-> "Ascii", err |-> "None",
     panic |-> FALSE, overflow |-> FALSE, checks |-> checks]

\* decode_parts: the state before the loop under overflow checks, the build of
\* the tests
decode_start == decode_start_in(TRUE)

\* an arithmetic operation overflowed: the panic of the build with checks
decode_overflow(st) == [st EXCEPT !.overflow = TRUE, !.panic = st.checks]

\* return Err(..)
decode_err(st, err) == [st EXCEPT !.err = err]

\* decodation::derandomize_253_state
derandomize_253_state(ch, pos) ==
    IF ch - (((149 * pos) % 253) + 1) >= 1
    THEN ch - (((149 * pos) % 253) + 1)
    ELSE ch - (((149 * pos) % 253) + 1) + 254

\* decodation::derandomize_255_state
derandomize_255_state(ch, pos) ==
    IF ch - (((149 * pos) % 255) + 1) >= 0
    THEN ch - (((149 * pos) % 255) + 1)
    ELSE ch - (((149 * pos) % 255) + 1) + 256

\* read_eci, the first codeword in 128..=191
read_eci_two(cw, st) ==
    IF st.i + 2 > Len(cw) THEN decode_err(st, "UnexpectedEnd")
    ELSE IF cw[st.i + 2] \notin 1..254 THEN decode_err(st, "UnexpectedCharacter")
    ELSE [st EXCEPT !.i = @ + 2,
                    !.ecis = Append(@, <<Len(st.out),
                        (cw[st.i + 1] - 128) * 254 + (cw[st.i + 2] - 1) + 127>>)]

\* read_eci, the first codeword in 192..=207: the second codeword is checked
\* twice and the third one never, so that ch3 -= 1 overflows when it is 0 and
\* wraps to 255 without overflow checks
read_eci_three(cw, st) ==
    IF st.i + 2 > Len(cw) THEN decode_err(st, "UnexpectedEnd")
    ELSE IF cw[st.i + 2] \notin 1..254 THEN decode_err(st, "UnexpectedCharacter")
    ELSE IF st.i + 3 > Len(cw) THEN decode_err(st, "UnexpectedEnd")
    ELSE IF cw[st.i + 3] = 0 /\ st.checks THEN decode_overflow(st)
    ELSE [st EXCEPT !.i = @ + 3,
                    !.overflow = @ \/ cw[st.i + 3] = 0,
                    !.ecis = Append(@, <<Len(st.out),
                        (cw[st.i + 1] - 192) * 64516 + (cw[st.i + 2] - 1) * 254
                            + ((cw[st.i + 3] + 255) % 256) + 16383>>)]

\* decodation::read_eci, after the ECI codeword was eaten
read_eci(cw, st) ==
    IF st.i + 1 > Len(cw) THEN decode_err(st, "UnexpectedEnd")
    ELSE IF cw[st.i + 1] \in 1..127
    THEN [st EXCEPT !.i = @ + 1,
                    !.ecis = Append(@, <<Len(st.out), cw[st.i + 1] - 1>>)]
    ELSE IF cw[st.i + 1] \in 128..191 THEN read_eci_two(cw, st)
    ELSE IF cw[st.i + 1] \in 192..207 THEN read_eci_three(cw, st)
    ELSE decode_err(st, "UnexpectedCharacter")

\* decode_ascii, ascii::PAD: eat the rest, check the padding format
decode_padding(cw, st) ==
    IF \E p \in (st.i + 2)..Len(cw) : derandomize_253_state(cw[p], p) # PAD
    THEN decode_err(st, "UnexpectedCharacter")
    ELSE [st EXCEPT !.i = Len(cw), !.mode = "Ascii"]

\* decode_ascii with the latch of C40 read as the one of Text
ascii_latch_text(ch) ==
    CASE ch = LATCH_C40 -> "Text"
      [] ch = LATCH_BASE256 -> "Base256"
      [] ch = LATCH_X12 -> "X12"
      [] ch = LATCH_TEXT -> "Text"
      [] ch = LATCH_EDIFACT -> "Edifact"
      [] OTHER -> "None"

\* decode_ascii: a latch codeword ends it
ascii_latch(ch) ==
    CASE ch = LATCH_C40 -> "C40"
      [] ch = LATCH_BASE256 -> "Base256"
      [] ch = LATCH_X12 -> "X12"
      [] ch = LATCH_TEXT -> "Text"
      [] ch = LATCH_EDIFACT -> "Edifact"
      [] OTHER -> "None"

\* decodation::decode_ascii
RECURSIVE decode_ascii(_, _, _)
decode_ascii(cw, st, upper_shift) ==
    IF st.err # "None" \/ st.panic THEN st
    ELSE IF st.i >= Len(cw) THEN [st EXCEPT !.mode = "Ascii"]
    ELSE IF cw[st.i + 1] \in 1..128
    THEN decode_ascii(cw,
             [st EXCEPT !.i = @ + 1,
                        !.out = Append(@, IF upper_shift THEN cw[st.i + 1] + 127
                                          ELSE cw[st.i + 1] - 1)],
             FALSE)
    ELSE IF cw[st.i + 1] = PAD THEN decode_padding(cw, st)
    ELSE IF cw[st.i + 1] \in 130..229
    THEN decode_ascii(cw,
             [st EXCEPT !.i = @ + 1,
                        !.out = @ \o <<48 + ((cw[st.i + 1] - 130) \div 10),
                                       48 + ((cw[st.i + 1] - 130) % 10)>>],
             upper_shift)
    ELSE IF ascii_latch(cw[st.i + 1]) # "None"
    THEN [st EXCEPT !.i = @ + 1, !.mode = ascii_latch(cw[st.i + 1])]
    ELSE IF cw[st.i + 1] \in {232, 233, 234, MACRO05, MACRO06}
    THEN decode_err([st EXCEPT !.i = @ + 1], "NotImplemented")
    ELSE IF cw[st.i + 1] = UPPER_SHIFT
    THEN decode_ascii(cw, [st EXCEPT !.i = @ + 1], TRUE)
    ELSE IF cw[st.i + 1] = ASCII_ECI
    THEN decode_ascii(cw, read_eci(cw, [st EXCEPT !.i = @ + 1]), upper_shift)
    ELSE decode_err([st EXCEPT !.i = @ + 1], "UnexpectedCharacter")

\* decode_base256: for _ in 0..length, the first of them at from + 1
base256_read(cw, st, from, length) ==
    IF from + length > Len(cw) THEN decode_err(st, "UnexpectedEnd")
    ELSE [st EXCEPT !.i = from + length, !.mode = "Ascii",
                    !.out = @ \o Vec([k \in 1..length |->
                                derandomize_255_state(cw[from + k], from + k)])]

\* the length of two codewords, counted in 256 instead of 250
base256_long_256(cw, st, ch1) ==
    IF st.i + 2 > Len(cw) THEN decode_err(st, "UnexpectedEnd")
    ELSE base256_read(cw, st, st.i + 2,
             256 * (ch1 - 249) + derandomize_255_state(cw[st.i + 2], st.i + 2))

\* decode_base256: the length of two codewords
base256_long(cw, st, ch1) ==
    IF st.i + 2 > Len(cw) THEN decode_err(st, "UnexpectedEnd")
    ELSE base256_read(cw, st, st.i + 2,
             250 * (ch1 - 249) + derandomize_255_state(cw[st.i + 2], st.i + 2))

\* decode_base256, called with codewords left
decode_base256(cw, st) ==
    IF derandomize_255_state(cw[st.i + 1], st.i + 1) = 0
    THEN base256_read(cw, st, st.i + 1, Len(cw) - (st.i + 1))
    ELSE IF derandomize_255_state(cw[st.i + 1], st.i + 1) < 250
    THEN base256_read(cw, st, st.i + 1, derandomize_255_state(cw[st.i + 1], st.i + 1))
    ELSE base256_long(cw, st, derandomize_255_state(cw[st.i + 1], st.i + 1))

\* decodation::dec_edifcat_char
dec_edifcat_char(ch) == IF (ch \div 32) % 2 # 0 THEN ch ELSE ch + 64

\* decode_edifact: the four values of three codewords
edifact_values(b0, b1, b2) ==
    <<b0 \div 4, (b0 % 4) * 16 + (b1 \div 16), (b1 % 16) * 4 + (b2 \div 64), b2 % 64>>

\* decode_edifact: the values before the first UNLATCH
RECURSIVE before_unlatch(_)
before_unlatch(vals) ==
    IF vals = <<>> \/ Head(vals) = EDIFACT_UNLATCH THEN <<>>
    ELSE <<dec_edifcat_char(Head(vals))>> \o before_unlatch(Tail(vals))

\* decodation::decode_edifact
RECURSIVE decode_edifact(_, _)
decode_edifact(cw, st) ==
    IF Len(cw) - st.i <= 2 THEN [st EXCEPT !.mode = "Ascii"]
    ELSE IF cw[st.i + 1] \div 4 = EDIFACT_UNLATCH
    THEN [st EXCEPT !.i = @ + 1, !.mode = "Ascii"]
    ELSE IF EDIFACT_UNLATCH \in
                {edifact_values(cw[st.i + 1], cw[st.i + 2], cw[st.i + 3])[k] : k \in 2..4}
    THEN [st EXCEPT
             !.i = @ + (IF edifact_values(cw[st.i + 1], cw[st.i + 2], cw[st.i + 3])[2]
                              = EDIFACT_UNLATCH THEN 2 ELSE 3),
             !.mode = "Ascii",
             !.out = @ \o before_unlatch(
                            edifact_values(cw[st.i + 1], cw[st.i + 2], cw[st.i + 3]))]
    ELSE decode_edifact(cw,
             [st EXCEPT !.i = @ + 3,
                        !.out = @ \o before_unlatch(
                            edifact_values(cw[st.i + 1], cw[st.i + 2], cw[st.i + 3]))])

\* decode_c40_tuple: (a << 8) + b - 1 overflows the u16
tuple_overflows(a, b) == a = 0 /\ b = 0

\* decode_c40_tuple: full, wrapped in 16 bits; the last two casts keep 8 bits
tuple_full(a, b) == (a * 256 + b + 65535) % 65536

\* decodation::decode_c40_tuple, when it does not panic
decode_c40_tuple(a, b) ==
    <<(tuple_full(a, b) \div 1600) % 256,
      ((tuple_full(a, b) % 1600) \div 40) % 256,
      ((tuple_full(a, b) % 1600) % 40) % 256>>

\* decodation::dec_x12_val; -1 is the Err
dec_x12_val(ch) ==
    IF ch = 0 THEN 13
    ELSE IF ch = 1 THEN 42
    ELSE IF ch = 2 THEN 62
    ELSE IF ch = 3 THEN 32
    ELSE IF ch \in 4..13 THEN 48 + (ch - 4)
    ELSE IF ch \in 14..39 THEN 65 + (ch - 14)
    ELSE -1

\* decode_x12 and decode_c40_like: a single UNLATCH at the end of the data
eat_unlatch(cw, st) ==
    IF st.err # "None" \/ st.panic THEN st
    ELSE IF st.i < Len(cw) /\ cw[st.i + 1] = UNLATCH
    THEN [st EXCEPT !.i = @ + 1, !.mode = "Ascii"]
    ELSE [st EXCEPT !.mode = "Ascii"]

\* decode_x12: the three values of a tuple
x12_values(t) == <<dec_x12_val(t[1]), dec_x12_val(t[2]), dec_x12_val(t[3])>>

\* decode_x12: the values up to the first that is an error
RECURSIVE x12_pushed(_)
x12_pushed(vals) ==
    IF vals = <<>> \/ Head(vals) = -1 THEN <<>>
    ELSE <<Head(vals)>> \o x12_pushed(Tail(vals))

\* decode_x12: while data.len() > 1
RECURSIVE x12_tuples(_, _)
x12_tuples(cw, st) ==
    IF Len(cw) - st.i <= 1 THEN st
    ELSE IF cw[st.i + 1] = UNLATCH THEN [st EXCEPT !.i = @ + 1]
    ELSE IF tuple_overflows(cw[st.i + 1], cw[st.i + 2]) /\ st.checks
    THEN decode_overflow(st)
    ELSE IF -1 \in {x12_values(decode_c40_tuple(cw[st.i + 1], cw[st.i + 2]))[k] :
                       k \in 1..3}
    THEN decode_err(
             [st EXCEPT !.i = @ + 2,
                        !.overflow = @ \/ tuple_overflows(cw[st.i + 1], cw[st.i + 2]),
                        !.out = @ \o x12_pushed(x12_values(
                                    decode_c40_tuple(cw[st.i + 1], cw[st.i + 2])))],
             "UnexpectedCharacter")
    ELSE x12_tuples(cw,
             [st EXCEPT !.i = @ + 2,
                        !.out = @ \o x12_values(
                                    decode_c40_tuple(cw[st.i + 1], cw[st.i + 2]))])

\* decodation::decode_x12
decode_x12(cw, st) == eat_unlatch(cw, x12_tuples(cw, st))

\* BASE_C40 and BASE_TEXT at ch - 3
map_base(text, ch) ==
    IF ch = 3 THEN 32
    ELSE IF ch \in 4..13 THEN 48 + (ch - 4)
    ELSE IF text THEN 97 + (ch - 14)
    ELSE 65 + (ch - 14)

\* SHIFT3_C40 and SHIFT3_TEXT at ch
map_shift3(text, ch) ==
    IF text /\ ch \in 1..26 THEN 65 + (ch - 1) ELSE 96 + ch

\* SHIFT2 at ch
map_shift2(ch) ==
    IF ch <= 14 THEN 33 + ch
    ELSE IF ch <= 21 THEN 58 + (ch - 15)
    ELSE 91 + (ch - 22)

\* decode_c40_like: out.push(text) under upper_shift or not
c40_out(c, ch) ==
    [c EXCEPT !.out = Append(@, IF c.upper_shift THEN ch + 128 ELSE ch),
              !.upper_shift = FALSE, !.shift = 0]

\* decode_c40_like: one value; c is the record of out, shift, upper_shift and
\* err, with the overflow and the checks of the decoder's state
c40_value(c, text, ch) ==
    IF c.err # "None" THEN c
    ELSE IF c.shift = 0
    THEN IF ch <= 2 THEN [c EXCEPT !.shift = ch + 1]
         ELSE IF ch <= 39 THEN c40_out(c, map_base(text, ch))
         ELSE [c EXCEPT !.err = "UnexpectedCharacter"]
    ELSE IF c.shift = 1
    THEN IF ch <= 31 THEN c40_out(c, ch)
         ELSE [c EXCEPT !.err = "UnexpectedCharacter"]
    ELSE IF c.shift = 2
    THEN IF ch <= 26 THEN c40_out(c, map_shift2(ch))
         ELSE IF ch = 27 THEN [c EXCEPT !.err = "NotImplemented"]
         ELSE IF ch = 30 THEN [c EXCEPT !.upper_shift = TRUE, !.shift = 0]
         ELSE [c EXCEPT !.err = "UnexpectedCharacter"]
    ELSE IF ch <= 31 THEN c40_out(c, map_shift3(text, ch))
    ELSE [c EXCEPT !.err = "UnexpectedCharacter"]

\* decode_c40_like: for ch in [c1, c2, c3]
c40_tuple(c, text, t) ==
    c40_value(c40_value(c40_value(c, text, t[1]), text, t[2]), text, t[3])

\* decode_c40_like: while data.len() > 1
RECURSIVE c40_tuples(_, _, _, _)
c40_tuples(cw, i, c, text) ==
    IF c.err # "None" \/ Len(cw) - i <= 1 THEN [i |-> i, c |-> c, panic |-> FALSE]
    ELSE IF cw[i + 1] = UNLATCH THEN [i |-> i + 1, c |-> c, panic |-> FALSE]
    ELSE IF tuple_overflows(cw[i + 1], cw[i + 2]) /\ c.checks
    THEN [i |-> i, c |-> [c EXCEPT !.overflow = TRUE], panic |-> TRUE]
    ELSE c40_tuples(cw, i + 2,
                    c40_tuple([c EXCEPT !.overflow =
                                   @ \/ tuple_overflows(cw[i + 1], cw[i + 2])],
                              text, decode_c40_tuple(cw[i + 1], cw[i + 2])), text)

\* decode_c40_like: the state of decode_parts after the loop
c40_state(st, r) ==
    [st EXCEPT !.i = r.i, !.out = r.c.out, !.err = r.c.err, !.panic = r.panic,
               !.overflow = r.c.overflow]

\* decodation::decode_c40_like
decode_c40_like(cw, st, text) ==
    eat_unlatch(cw,
        c40_state(st, c40_tuples(cw, st.i,
            [out |-> st.out, shift |-> 0, upper_shift |-> FALSE, err |-> "None",
             overflow |-> st.overflow, checks |-> st.checks],
            text)))

\* decode_parts: the decoder of the mode
decode_mode(cw, st) ==
    CASE st.mode = "Ascii" -> decode_ascii(cw, st, FALSE)
      [] st.mode = "Base256" -> decode_base256(cw, st)
      [] st.mode = "X12" -> decode_x12(cw, st)
      [] st.mode = "Edifact" -> decode_edifact(cw, st)
      [] st.mode = "C40" -> decode_c40_like(cw, st, FALSE)
      [] st.mode = "Text" -> decode_c40_like(cw, st, TRUE)

\* decodation::decode_parts: while !data.is_empty()
RECURSIVE decode_parts_from(_, _)
decode_parts_from(cw, st) ==
    IF st.err # "None" \/ st.panic \/ st.i >= Len(cw) THEN st
    ELSE decode_parts_from(cw, decode_mode(cw, st))

\* decodation::decode_parts
decode_parts(cw) == decode_parts_from(cw, decode_start)

\* decodation::decode_data: Ok(out), the error or the panic
decode_data_of(st) ==
    IF st.panic THEN [panic |-> TRUE, err |-> "None", out |-> <<>>]
    ELSE IF st.err # "None" THEN [panic |-> FALSE, err |-> st.err, out |-> <<>>]
    ELSE IF st.ecis # <<>> THEN [panic |-> FALSE, err |-> "ECICode", out |-> <<>>]
    ELSE [panic |-> FALSE, err |-> "None", out |-> st.out]

decode_data(cw) == decode_data_of(decode_parts(cw))

-----------------------------------------------------------------------------
(* The run of the library: DataMatrixBuilder::encode, DataMatrix::bitmap    *)
(* and DataMatrix::decode, on bounded inputs and policies.                  *)

\* DataMatrix::bitmap
DataMatrix_bitmap(dm) == bitmap(new_with_codewords(dm.codewords, dm.size).map)

\* DataMatrix::decode: from errorcode::decode_error on
decode_corrected(r, s) ==
    IF r.result # "Ok" THEN [panic |-> FALSE, err |-> "ErrorCorrection", out |-> <<>>]
    ELSE decode_data(SubSeq(r.codewords, 1, num_data_codewords(s)))

\* DataMatrix::decode: the codewords were read from the map
decode_read(cw, s) ==
    IF cw.panic THEN [panic |-> TRUE, err |-> "None", out |-> <<>>]
    ELSE decode_corrected(decode(cw.data, s), s)

\* DataMatrix::decode: the map was read from the pixels
decode_report(report) ==
    IF report.panic THEN [panic |-> TRUE, err |-> "None", out |-> <<>>]
    ELSE IF report.none THEN [panic |-> FALSE, err |-> "PixelConversion", out |-> <<>>]
    ELSE decode_read(codewords(report.matrix_map), report.symbol_size)

\* DataMatrix::decode
DataMatrix_decode(pixels, width) == decode_report(try_from_bits(pixels, width))

\* the inputs are the first 0..MaxInput bytes of these texts
MaxInput == 6

EncTexts ==
    << <<72, 101, 108, 108, 111, 44, 32, 87, 111, 114, 108, 100, 33>>,
       <<49, 50, 51, 52, 53, 54, 55>>,
       <<65, 73, 77, 65, 73, 77, 65, 73, 77>>,
       <<171, 228, 246, 252, 233, 187, 200>>,
       <<46, 65, 46, 67, 49, 46, 51, 46, 88, 46, 88, 50, 46>>,
       <<57, 72, 82, 51, 90, 54, 42>> >>

\* inputs with the head and the trail of a macro, and with the head alone
EncMacroInputs ==
    {MACRO05_HEAD \o <<65>> \o MACRO_TRAIL,
     MACRO06_HEAD \o <<65, 200>> \o MACRO_TRAIL,
     MACRO05_HEAD}

\* inputs encoded in full: "Hello, World!" and the inputs of regression8 and
\* regression19
EncFullInputs ==
    {EncTexts[1],
     <<255, 74, 66, 57, 32, 50, 74, 255>>,
     <<252, 104, 104, 116, 116, 104, 104, 104, 104, 104, 104, 104, 104, 104, 104, 104,
       104, 104, 104, 104, 104, 104, 104, 216, 57, 104, 104, 140, 104, 37, 77, 37, 89,
       91, 91, 91, 77, 37, 89, 91, 91, 91, 75, 91, 104, 104, 75, 91, 104, 104, 104, 104,
       104>>}

EncInputs ==
    {SubSeq(EncTexts[t], 1, n) : t \in 1..Len(EncTexts), n \in 0..MaxInput}
        \cup EncMacroInputs \cup EncFullInputs

\* SymbolSize::is_square
is_square(s) == block_setup(s).width = block_setup(s).height

\* SymbolList::enforce_square
enforce_square(symbol_list) == SelectSeq(symbol_list, is_square)

\* the policies: symbol list, enabled modes, macros
policy(symbol_list, enabled_modes, use_macros) ==
    [symbol_list |-> symbol_list, enabled_modes |-> enabled_modes,
     use_macros |-> use_macros]

EncPolicies ==
    {policy(SymbolList_default, AllModes, TRUE),
     policy(enforce_square(SymbolList_default), AllModes, TRUE),
     policy(SymbolList_default, AllModes, FALSE),
     policy(SymbolList_all, AllModes, FALSE),
     policy(with_whitelist({"Rect8x18", "Square12", "Square16"}),
            {"Ascii", "Base256"}, FALSE),
     policy(with_whitelist({"Square10"}), AllModes, FALSE),
     policy(with_whitelist({"Square10", "Square12"}), AllModes, FALSE),
     policy(with_whitelist({}), AllModes, FALSE)}

\* a builder with its policy and the data to encode
EncInit ==
    /\ size = "None"
    /\ RSIdle
    /\ PlIdle
    /\ \E data \in EncInputs, p \in EncPolicies :
          enc_args = [data |-> data, symbol_list |-> p.symbol_list, eci |-> NoEci,
                      enabled_modes |-> p.enabled_modes, use_macros |-> p.use_macros]
    /\ encoder = <<>>
    /\ enc_result = <<>>
    /\ dec_result = <<>>
    /\ enc_pc = "new"

\* DataMatrixBuilder::encode(data); encoder keeps the GenericDataEncoder that
\* encode_data calls codewords() on
Encode ==
    /\ enc_pc = "new"
    /\ encoder' = encode_data_encoder(enc_args.data, enc_args.symbol_list, enc_args.eci,
                                      enc_args.enabled_modes, enc_args.use_macros)
    /\ \E tie \in BOOLEAN :
          enc_result' = encode_eci(enc_args.data, enc_args.symbol_list, enc_args.eci,
                                   enc_args.enabled_modes, enc_args.use_macros, tie)
    /\ enc_pc' = "encoded"
    /\ UNCHANGED <<size, enc_args, dec_result>>
    /\ UNCHANGED <<rsVars, plVars>>

\* DataMatrix::bitmap() of the encoded symbol
Bitmap ==
    /\ enc_pc = "encoded"
    /\ ~enc_result.panic
    /\ enc_result.err = "None"
    /\ pl_bitmap' = DataMatrix_bitmap(enc_result)
    /\ enc_pc' = "drawn"
    /\ UNCHANGED <<size, pl_data, pl_trav, pl_map, pl_report, pl_pc>>
    /\ UNCHANGED <<rsVars, enc_args, encoder, enc_result, dec_result>>

\* DataMatrix::decode(&bitmap.bits, bitmap.width)
Decode ==
    /\ enc_pc = "drawn"
    /\ ~pl_bitmap.panic
    /\ dec_result' = DataMatrix_decode(pl_bitmap.bits, pl_bitmap.width)
    /\ enc_pc' = "decoded"
    /\ UNCHANGED <<size, enc_args, encoder, enc_result>>
    /\ UNCHANGED <<rsVars, plVars>>

SpecEnc == EncInit /\ [][Encode \/ Bitmap \/ Decode]_vars

\* ---------------------------------------------------------------------------
\* Properties of the encode / bitmap / decode run

\* the run has encoded without an error
Encoded == enc_pc # "new" /\ ~enc_result.panic /\ enc_result.err = "None"

\* C1: decoding the bitmap of an encoded symbol returns exactly the input
\* bytes, for every input that encodes and every policy
C1_RoundTrip ==
    enc_pc = "decoded" =>
        dec_result = [panic |-> FALSE, err |-> "None", out |-> enc_args.data]

\* a macro input was encoded with the macro codeword and decoded again
C1_Witness ==
    /\ enc_pc = "decoded"
    /\ enc_args.use_macros
    /\ enc_args.data = MACRO05_HEAD \o <<65>> \o MACRO_TRAIL
    /\ data_codewords(enc_result)[1] = MACRO05

\* C4: with the default symbol list and all modes enabled every input of at
\* most 1555 bytes encodes without an error
C4_EncodesUpTo1555 ==
    (/\ enc_pc # "new"
     /\ enc_args.symbol_list = SymbolList_default
     /\ enc_args.enabled_modes = AllModes
     /\ Len(enc_args.data) <= 1555) => Encoded

\* the default builder has encoded "Hello," into a symbol
C4_Witness ==
    /\ Encoded
    /\ enc_args.symbol_list = SymbolList_default
    /\ enc_args.enabled_modes = AllModes
    /\ enc_args.use_macros
    /\ enc_args.data = <<72, 101, 108, 108, 111, 44>>

\* C5: the symbol returned has at least as many data codewords as were
\* emitted, the codeword vector has Nd + Nb * Ne entries, and its data part
\* has exactly Nd entries that begin with the emitted codewords
C5_CodewordCounts ==
    Encoded =>
        /\ num_data_codewords(enc_result.size) >= enc_result.emitted
        /\ Len(enc_result.codewords)
               = num_data_codewords(enc_result.size)
                   + block_setup(enc_result.size).num_ecc_blocks
                       * block_setup(enc_result.size).num_ecc_per_block
        /\ Len(data_codewords(enc_result)) = num_data_codewords(enc_result.size)
        /\ enc_result.num_data_codewords = num_data_codewords(enc_result.size)

\* a symbol with padding: fewer codewords emitted than the symbol holds
C5_Witness ==
    /\ Encoded
    /\ enc_result.emitted > 0
    /\ enc_result.emitted < num_data_codewords(enc_result.size)

\* the symbols of a list, as a set
symbols_of(symbol_list) == {symbol_list[k] : k \in 1..Len(symbol_list)}

\* C6: the symbol returned is the smallest of the policy, by Nd and then by
\* W^2 + H^2, whose Nd is at least the number of codewords emitted
C6_SmallestSymbol ==
    Encoded =>
        /\ enc_result.size \in symbols_of(enc_args.symbol_list)
        /\ num_data_codewords(enc_result.size) >= enc_result.emitted
        /\ \A s \in symbols_of(enc_args.symbol_list) :
              num_data_codewords(s) >= enc_result.emitted
                  => s = enc_result.size \/ symbol_less(enc_result.size, s)

\* a symbol that is neither the first nor the last of its list was picked
C6_Witness ==
    /\ Encoded
    /\ enc_result.size # enc_args.symbol_list[1]
    /\ enc_result.size # enc_args.symbol_list[Len(enc_args.symbol_list)]
    /\ enc_args.symbol_list = SymbolList_all

\* the value of a pad at the 1-based position p
randomized_pad(p) ==
    IF 129 + ((149 * p) % 253) + 1 > 254 THEN 129 + ((149 * p) % 253) + 1 - 254
    ELSE 129 + ((149 * p) % 253) + 1

\* the codeword that padding puts at position p, after emitted codewords and
\* with unlatch = 1 when the mode was not Ascii
padding_at(p, emitted, unlatch) ==
    IF unlatch = 1 /\ p = emitted + 1 THEN 254
    ELSE IF p = emitted + unlatch + 1 THEN 129
    ELSE randomized_pad(p)

\* C11: after the data come UNLATCH if the mode is not Ascii, then PAD, then
\* the randomized pads, up to exactly Nd codewords; the empty input gives
\* [129, 175, 70] in a 10x10
C11_Padding ==
    Encoded =>
        /\ enc_result.num_data_codewords = num_data_codewords(enc_result.size)
        /\ \A p \in (enc_result.emitted + 1)..enc_result.num_data_codewords :
              enc_result.codewords[p]
                  = padding_at(p, enc_result.emitted,
                               IF enc_result.mode = "Ascii" THEN 0 ELSE 1)
        /\ (enc_args.data = <<>> /\ enc_args.symbol_list = SymbolList_default)
              => /\ data_codewords(enc_result) = <<129, 175, 70>>
                 /\ enc_result.size = "Square10"

\* data was padded with PAD and randomized pads, one of them wrapped
C11_Witness ==
    /\ Encoded
    /\ enc_result.emitted > 0
    /\ enc_result.emitted + 3 <= enc_result.num_data_codewords
    /\ \E p \in (enc_result.emitted + 2)..enc_result.num_data_codewords :
          enc_result.codewords[p] < 129

\* C12: the encoder returns SymbolListEmpty if and only if the symbol list of
\* the policy has no symbols
C12_SymbolListEmptyIff ==
    (enc_pc # "new" /\ ~enc_result.panic) =>
        (enc_result.err = "SymbolListEmpty" <=> enc_args.symbol_list = <<>>)

\* encoding with the empty symbol list has returned SymbolListEmpty
C12_Witness ==
    /\ enc_pc # "new"
    /\ enc_args.symbol_list = <<>>
    /\ enc_result.err = "SymbolListEmpty"

\* the plans of the first round of optimize, before remove_hopeless_cases
first_frontier(d, written, enabled_modes, nds) ==
    round_plans(start_plans("Ascii", written, enabled_modes, d, nds).list, 1,
                [list |-> <<>>, panic |-> FALSE, at_end |-> FALSE],
                Len(d), TRUE, enabled_modes, d, nds).list

\* the two orders of the sort differ on the list: it holds plans of equal cost
order_matters(list, d, nds) ==
    sort_by_cost(list, costs_of(list, d, nds), TRUE)
        # sort_by_cost(list, costs_of(list, d, nds), FALSE)

HelloWorld == EncTexts[1]

\* the run of "Hello, World!" under the square symbols of the default list
HelloWorldEncoded ==
    /\ Encoded
    /\ enc_args.data = HelloWorld
    /\ enc_args.symbol_list = enforce_square(SymbolList_default)

\* C18: "Hello, World!" under the smallest fitting square gives data codewords
\* that begin [73, 239, 116, 130, 175, 123, 148, 64, 158, 234, 254, 34] in a
\* symbol of 14x14
C18_HelloWorld ==
    HelloWorldEncoded =>
        /\ Len(data_codewords(enc_result)) >= 12
        /\ SubSeq(data_codewords(enc_result), 1, 12)
               = <<73, 239, 116, 130, 175, 123, 148, 64, 158, 234, 254, 34>>
        /\ enc_result.size = "Square14"

\* C18 as the code has it: the data codewords are
\* [73, 239, 116, 130, 175, 52, 19, 40, 179, 242, 106, 105] and the symbol is
\* 16x16, the smallest square with 12 data codewords
C18_HelloWorldAmended ==
    HelloWorldEncoded =>
        /\ data_codewords(enc_result)
               = <<73, 239, 116, 130, 175, 52, 19, 40, 179, 242, 106, 105>>
        /\ enc_result.size = "Square16"
        /\ block_setup(enc_result.size).width = 16
        /\ block_setup(enc_result.size).height = 16

\* "Hello, World!" was encoded under the square symbols and decoded again
C18_Witness ==
    /\ HelloWorldEncoded
    /\ enc_pc = "decoded"
    /\ dec_result.out = HelloWorld

\* C19: the codec follows the plan: once the encoder is set up no call of
\* maybe_switch_mode finds the plan empty or the characters left below the
\* next planned switch, so encoding does not panic
C19_PlanFollowed ==
    (enc_pc # "new" /\ ~encoder.panic) => ~enc_result.panic

\* an input with planned switches between modes was encoded: the input of
\* regression19, with parts in Ascii, Text and Edifact
C19_Witness ==
    /\ Encoded
    /\ Len(enc_args.data) = 53
    /\ enc_args.enabled_modes = AllModes
    /\ \E p \in 1..enc_result.emitted :
          enc_result.codewords[p] \in {LATCH_C40, LATCH_TEXT, LATCH_X12, LATCH_EDIFACT}

\* an upper limit of the codewords of the input in Ascii: one for a byte up
\* to 127, two for the others
ascii_upper_limit(data) ==
    Len(data) + Cardinality({k \in 1..Len(data) : data[k] > 127})

\* C20: encoding succeeds whenever the symbol list is not empty and the
\* input's encoding over the enabled modes fits a symbol of the list; here
\* the encoding in Ascii, which is enabled, fits
C20_FailsOnlyForReasons ==
    (/\ enc_pc # "new"
     /\ enc_args.symbol_list # <<>>
     /\ "Ascii" \in enc_args.enabled_modes
     /\ \E s \in symbols_of(enc_args.symbol_list) :
           num_data_codewords(s) >= ascii_upper_limit(enc_args.data)) => Encoded

\* an input that fits a symbol of a list of two was encoded
C20_Witness ==
    /\ Encoded
    /\ Len(enc_args.symbol_list) = 2
    /\ enc_args.data # <<>>

-----------------------------------------------------------------------------
(* The Reed-Solomon run with more errors than a block corrects.  The symbols *)
(* have one block, so the errors of the block are those of the symbol.       *)

\* the symbol sizes of the run: one block of 5 and of 7 error codewords
TMSizes == {"Square10", "Square12"}

\* transmission hits up to MaxTooMany codewords more than a block corrects
MaxTooMany == 2

\* the number of errors a block of the symbol corrects
correction_capacity(s) == block_setup(s).num_ecc_per_block \div 2

\* the codewords of the data block 1, 0, .., 0: by linearity of encode_error
\* the difference of two codeword vectors of the symbol
codeword_difference(s) ==
    [i \in 1..num_data_codewords(s) |-> IF i = 1 THEN 1 ELSE 0]
        \o encode_error([i \in 1..num_data_codewords(s) |-> IF i = 1 THEN 1 ELSE 0], s)

\* the values added to the codeword at pos: 1, or what leads towards the
\* other codeword vector
TMValues(s, pos) == {1} \cup ({codeword_difference(s)[pos + 1]} \ {0})

\* transmission changes one more codeword
TMCorrupt ==
    /\ rs_pc \in {"encoded", "corrupted"}
    /\ Cardinality(hit) < correction_capacity(size) + MaxTooMany
    /\ \E pos \in ErrPositions(size) \ hit :
          \E val \in TMValues(size, pos) :
              received' = [received EXCEPT ![pos + 1] = BitXor(@, val)]
    /\ rs_pc' = "corrupted"
    /\ UNCHANGED <<size, rs_data, sent, rs_result>>
    /\ UNCHANGED <<plVars, encVars>>

\* errorcode::decode on a copy of the received codewords: rs_result is the
\* result and the codewords afterwards, received stays as transmitted
TMDecode ==
    /\ rs_pc \in {"encoded", "corrupted"}
    /\ rs_result' = decode(received, size)
    /\ rs_pc' = "decoded"
    /\ UNCHANGED <<size, rs_data, sent, received>>
    /\ UNCHANGED <<plVars, encVars>>

SpecTooMany == RSInit(TMSizes) /\ [][RSEncode \/ TMCorrupt \/ TMDecode]_vars

\* C14: when the errors of a block are more than it corrects (Ne / 2),
\* decode reports TooManyErrors
C14_TooManyErrors ==
    (rs_pc = "decoded" /\ Cardinality(hit) > correction_capacity(size))
        => rs_result.result = "TooManyErrors"

\* a block of 5 error codewords was decoded after 3 of its codewords were hit
C14_Witness ==
    /\ rs_pc = "decoded"
    /\ size = "Square10"
    /\ Cardinality(hit) = correction_capacity(size) + 1
    /\ rs_result.result # "Ok"

-----------------------------------------------------------------------------
(* The ECI run: the data is encoded with an ECI and the data codewords are   *)
(* decoded again.                                                            *)

\* the ECI values tried are the limits of the three formats and MaxEciSample
\* values spread over 0..999999
MaxEciSample == 40

EciValues ==
    {0, 1, 126, 127, 128, 380, 381, 16382, 16383, 16384, 16636, 16637, 80898, 80899,
     999998, 999999}
        \cup {(k * 25013) % 1000000 : k \in 1..MaxEciSample}

\* the data after the ECI: none, or the byte "A"
EciData == {<<>>, <<65>>}

EciInit ==
    /\ size = "None"
    /\ RSIdle
    /\ PlIdle
    /\ \E c \in EciValues, data \in EciData :
          enc_args = [data |-> data, symbol_list |-> SymbolList_default, eci |-> c,
                      enabled_modes |-> AllModes, use_macros |-> FALSE]
    /\ encoder = <<>>
    /\ enc_result = <<>>
    /\ dec_result = <<>>
    /\ enc_pc = "new"

\* DataMatrixBuilder::encode_eci(data, eci)
EciEncode ==
    /\ enc_pc = "new"
    /\ encoder' = encode_data_encoder(enc_args.data, enc_args.symbol_list, enc_args.eci,
                                      enc_args.enabled_modes, enc_args.use_macros)
    /\ enc_result' = encode_eci(enc_args.data, enc_args.symbol_list, enc_args.eci,
                                enc_args.enabled_modes, enc_args.use_macros, FALSE)
    /\ enc_pc' = "encoded"
    /\ UNCHANGED <<size, enc_args, dec_result>>
    /\ UNCHANGED <<rsVars, plVars>>

\* decodation::decode_parts on the data codewords: dec_result is the output and
\* the list of (position, ECI)
EciDecode ==
    /\ enc_pc = "encoded"
    /\ ~enc_result.panic
    /\ enc_result.err = "None"
    /\ dec_result' = decode_parts(data_codewords(enc_result))
    /\ enc_pc' = "decoded"
    /\ UNCHANGED <<size, enc_args, encoder, enc_result>>
    /\ UNCHANGED <<rsVars, plVars>>

SpecEci == EciInit /\ [][EciEncode \/ EciDecode]_vars

\* the number of codewords that follow 241 for the ECI c
eci_codewords(c) == IF c <= 126 THEN 1 ELSE IF c <= 16382 THEN 2 ELSE 3

\* C16: the ECI is written as 241 and one codeword c + 1 for c <= 126, two
\* codewords, the first in 128..191, for c <= 16382, three codewords, the first
\* in 192..207, above, and the decoder reads back exactly c
C16_EciRoundTrip ==
    enc_pc = "decoded" =>
        /\ enc_result.codewords[1] = 241
        /\ enc_args.eci <= 126 => enc_result.codewords[2] = enc_args.eci + 1
        /\ (enc_args.eci > 126 /\ enc_args.eci <= 16382)
              => enc_result.codewords[2] \in 128..191
        /\ enc_args.eci > 16382 => enc_result.codewords[2] \in 192..207
        /\ encoder.codewords
               = SubSeq(enc_result.codewords, 1, 1 + eci_codewords(enc_args.eci))
        /\ ~dec_result.panic
        /\ dec_result.err = "None"
        /\ dec_result.ecis = << <<0, enc_args.eci>> >>
        /\ dec_result.out = enc_args.data

\* the largest ECI was written in three codewords, with data after it, and
\* read back
C16_Witness ==
    /\ enc_pc = "decoded"
    /\ enc_args.eci = 999999
    /\ enc_args.data = <<65>>
    /\ Len(encoder.codewords) = 4
    /\ dec_result.ecis = << <<0, 999999>> >>

-----------------------------------------------------------------------------
(* The run at the limit of the default symbol list: inputs of one repeated   *)
(* byte, of 1555 bytes and around.  The inputs up to 1555 bytes are of bytes *)
(* above 127, which take the most room.                                     *)

\* the greatest input length of the default symbol list
LimitLen == 1555

\* inputs of LimitLen - MaxBelow .. LimitLen + MaxAbove bytes are tried
MaxBelow == 1

MaxAbove == 4

\* the bytes of the inputs up to the limit, and of those above it
LimitBytesHigh == {200, 255}

LimitBytes == {0, 32, 42, 49, 65, 97, 127, 128, 200, 255, 4, 30}

LimitInputs ==
    {Repeat(b, n) : b \in LimitBytesHigh, n \in (LimitLen - MaxBelow)..LimitLen}
        \cup {Repeat(b, n) : b \in LimitBytes, n \in (LimitLen + 1)..(LimitLen + MaxAbove)}

LimitInit ==
    /\ size = "None"
    /\ RSIdle
    /\ PlIdle
    /\ \E data \in LimitInputs :
          enc_args = [data |-> data, symbol_list |-> SymbolList_default, eci |-> NoEci,
                      enabled_modes |-> AllModes, use_macros |-> TRUE]
    /\ encoder = <<>>
    /\ enc_result = <<>>
    /\ dec_result = <<>>
    /\ enc_pc = "new"

\* data::encode_data(data, &SymbolList::default(), None, all modes, true)
LimitEncode ==
    /\ enc_pc = "new"
    /\ encoder' = encode_data_encoder(enc_args.data, enc_args.symbol_list, enc_args.eci,
                                      enc_args.enabled_modes, enc_args.use_macros)
    /\ enc_result' = encode_data(enc_args.data, enc_args.symbol_list, enc_args.eci,
                                 enc_args.enabled_modes, enc_args.use_macros, FALSE)
    /\ enc_pc' = "encoded"
    /\ UNCHANGED <<size, enc_args, dec_result>>
    /\ UNCHANGED <<rsVars, plVars>>

\* decodation::decode_data of the codewords
LimitDecode ==
    /\ enc_pc = "encoded"
    /\ ~enc_result.panic
    /\ enc_result.err = "None"
    /\ dec_result' = decode_data(enc_result.codewords)
    /\ enc_pc' = "decoded"
    /\ UNCHANGED <<size, enc_args, encoder, enc_result>>
    /\ UNCHANGED <<rsVars, plVars>>

SpecLimit == LimitInit /\ [][LimitEncode \/ LimitDecode]_vars

\* C13: under the default symbol list an input of 1556 bytes (or more) fails
\* to encode, and an input of 1555 bytes is accepted: it is encoded, into the
\* Square144, and decoded again
C13_LimitOfDefaultList ==
    /\ (enc_pc # "new" /\ Len(enc_args.data) >= 1556)
          => (~enc_result.panic /\ enc_result.err # "None")
    /\ (enc_pc # "new" /\ Len(enc_args.data) <= 1555)
          => (Encoded /\ enc_result.size = "Square144")
    /\ enc_pc = "decoded"
          => dec_result = [panic |-> FALSE, err |-> "None", out |-> enc_args.data]

\* an input of 1555 bytes was encoded to the 1558 data codewords of Square144
C13_Witness ==
    /\ enc_pc = "decoded"
    /\ Len(enc_args.data) = 1555
    /\ enc_result.emitted = 1558
    /\ enc_result.size = "Square144"

\* an input of 1556 digits was rejected
C13_WitnessRejected ==
    /\ enc_pc = "encoded"
    /\ enc_args.data = Repeat(49, 1556)
    /\ enc_result.err # "None"

-----------------------------------------------------------------------------
(* The Base256 run: with Base256 the only mode enabled the input is encoded  *)
(* as one Base256 run, and the codewords are decoded again.                  *)

\* runs of 1..MaxRun bytes are tried, and those of LongRuns
MaxRun == 24

\* run lengths around the two codeword length (250), its second step (500),
\* one that fills the Square64 (278 + 2 = 280), and the longest (1555)
LongRuns == {248, 249, 250, 251, 278, 499, 500, 501, 1555}

\* the bytes of a run are different for every seed
MaxRunSeed == 1

run_bytes(seed, n) == Vec([k \in 1..n |-> (seed * 101 + k * 37) % 256])

RunInputs ==
    {run_bytes(seed, n) : seed \in 0..MaxRunSeed, n \in (1..MaxRun) \cup LongRuns}

RunInit ==
    /\ size = "None"
    /\ RSIdle
    /\ PlIdle
    /\ \E data \in RunInputs :
          enc_args = [data |-> data, symbol_list |-> SymbolList_default, eci |-> NoEci,
                      enabled_modes |-> {"Base256"}, use_macros |-> FALSE]
    /\ encoder = <<>>
    /\ enc_result = <<>>
    /\ dec_result = <<>>
    /\ enc_pc = "new"

\* data::encode_data(data, &SymbolList::default(), None, Base256, false)
RunEncode ==
    /\ enc_pc = "new"
    /\ encoder' = encode_data_encoder(enc_args.data, enc_args.symbol_list, enc_args.eci,
                                      enc_args.enabled_modes, enc_args.use_macros)
    /\ enc_result' = encode_data(enc_args.data, enc_args.symbol_list, enc_args.eci,
                                 enc_args.enabled_modes, enc_args.use_macros, FALSE)
    /\ enc_pc' = "encoded"
    /\ UNCHANGED <<size, enc_args, dec_result>>
    /\ UNCHANGED <<rsVars, plVars>>

\* decodation::decode_data of the codewords
RunDecode ==
    /\ enc_pc = "encoded"
    /\ ~enc_result.panic
    /\ enc_result.err = "None"
    /\ dec_result' = decode_data(enc_result.codewords)
    /\ enc_pc' = "decoded"
    /\ UNCHANGED <<size, enc_args, encoder, enc_result>>
    /\ UNCHANGED <<rsVars, plVars>>

SpecRun == RunInit /\ [][RunEncode \/ RunDecode]_vars

\* the codeword at the 1-based position p, the randomization taken off
plain_at(cw, p) == derandomize_255_state(cw[p], p)

\* the length field of a run of n bytes after the latch: 0 when the run ends
\* the symbol of nd data codewords, one codeword up to 249, else two
length_field_ok(cw, emitted, n, nd) ==
    IF n + 2 = nd THEN emitted = n + 2 /\ plain_at(cw, 2) = 0
    ELSE IF n <= 249 THEN emitted = n + 2 /\ plain_at(cw, 2) = n
    ELSE /\ emitted = n + 3
         /\ plain_at(cw, 2) = (n \div 250) + 249
         /\ plain_at(cw, 3) = n % 250

\* C17: a Base256 run of L bytes has one length codeword for L <= 249, two
\* (L / 250 + 249, L mod 250) for 250 <= L <= 1555, and length 0 when it ends
\* the symbol; the decoder returns exactly the L bytes
C17_Base256Length ==
    enc_pc # "new" =>
        /\ Encoded
        /\ enc_result.codewords[1] = LATCH_BASE256
        /\ length_field_ok(enc_result.codewords, enc_result.emitted,
                           Len(enc_args.data), num_data_codewords(enc_result.size))
        /\ enc_pc = "decoded"
              => dec_result = [panic |-> FALSE, err |-> "None", out |-> enc_args.data]

\* a run of 500 bytes was written with the length codewords 251, 0 and decoded
C17_Witness ==
    /\ enc_pc = "decoded"
    /\ Len(enc_args.data) = 500
    /\ plain_at(enc_result.codewords, 2) = 251
    /\ plain_at(enc_result.codewords, 3) = 0
    /\ Len(dec_result.out) = 500

\* a run that ends the symbol was written with length 0 and decoded
C17_WitnessSymbolEnd ==
    /\ enc_pc = "decoded"
    /\ enc_result.emitted = num_data_codewords(enc_result.size)
    /\ plain_at(enc_result.codewords, 2) = 0

-----------------------------------------------------------------------------
(* The planner run: an input is encoded as planned, and its number of        *)
(* codewords is compared with what the encoder writes when it is handed any  *)
(* other list of switches.                                                   *)

\* inputs of up to MaxPlanLen bytes are tried
MaxPlanLen == 3

\* a digit, an upper and a lower case letter, a space, the X12 terminator "*",
\* a byte for the upper shift
PlanBytes == {49, 65, 97, 32, 42, 200}

PlanInputs ==
    UNION {[1..n -> PlanBytes] : n \in 0..MaxPlanLen}

\* the sets of enabled modes tried
PlanModes == {AllModes, {"Ascii", "C40", "Base256"}, {"Ascii", "Text", "X12", "Edifact"}}

PlanInit ==
    /\ size = "None"
    /\ RSIdle
    /\ PlIdle
    /\ \E data \in PlanInputs, modes \in PlanModes :
          enc_args = [data |-> Vec(data), symbol_list |-> SymbolList_default,
                      eci |-> NoEci, enabled_modes |-> modes, use_macros |-> FALSE]
    /\ encoder = <<>>
    /\ enc_result = <<>>
    /\ dec_result = <<>>
    /\ enc_pc = "new"

\* data::encode_data(data, &SymbolList::default(), None, enabled_modes, false)
PlanEncode ==
    /\ enc_pc = "new"
    /\ encoder' = encode_data_encoder(enc_args.data, enc_args.symbol_list, enc_args.eci,
                                      enc_args.enabled_modes, enc_args.use_macros)
    /\ \E tie \in BOOLEAN :
          enc_result' = encode_data(enc_args.data, enc_args.symbol_list, enc_args.eci,
                                    enc_args.enabled_modes, enc_args.use_macros, tie)
    /\ enc_pc' = "encoded"
    /\ UNCHANGED <<size, enc_args, dec_result>>
    /\ UNCHANGED <<rsVars, plVars>>

SpecPlan == PlanInit /\ [][PlanEncode]_vars

\* the list of switches that puts the i-th character into the mode modes[i]:
\* a switch where the mode changes, Ascii before the first, and the last mode
\* at 0 characters left
switches_of(modes) ==
    Append(SelectSeq(Vec([i \in 1..Len(modes) |->
                            IF modes[i] = (IF i = 1 THEN "Ascii" ELSE modes[i - 1])
                            THEN <<-1, modes[i]>>
                            ELSE <<Len(modes) - i + 1, modes[i]>>]),
                     LAMBDA sw : sw[1] # -1),
           <<0, IF modes = <<>> THEN "Ascii" ELSE modes[Len(modes)]>>)

\* what GenericDataEncoder::codewords returns for the encoder e when the plan
\* is the list of switches
codewords_under(e, switches) ==
    codewords_planned(e, [none |-> FALSE, panic |-> FALSE, switches |-> switches,
                          cost |-> 0])

\* the codewords r encode the data: they were written without an error and
\* decode to the data
encodes(r, data) ==
    /\ ~r.panic
    /\ r.err = "None"
    /\ decode_data(r.codewords) = [panic |-> FALSE, err |-> "None", out |-> data]

\* the codewords r are not fewer than emitted, unless they do not encode the
\* data
not_shorter(r, data, emitted) == r.emitted >= emitted \/ ~encodes(r, data)

-----------------------------------------------------------------------------
(* decodation::decode_parts on codewords of any content, iteration by       *)
(* iteration of its loop, in the build with overflow checks and in the one  *)
(* without: enc_args holds the codewords and the build, dec_result the      *)
(* state of decode_parts.                                                   *)

\* the codewords after the head are at most this many
MaxDecBody == 3

\* the heads of the codewords: nothing, a latch, or the ECI codeword with the
\* first value codeword of the two- and of the three-codeword form
DecHeads ==
    {<<>>, <<LATCH_C40>>, <<LATCH_BASE256>>, <<LATCH_X12>>, <<LATCH_TEXT>>,
     <<LATCH_EDIFACT>>, <<ASCII_ECI>>, <<ASCII_ECI, 128>>, <<ASCII_ECI, 192>>}

\* the codewords after the head: the bounds of the value codewords, a letter,
\* the Edifact unlatch in the first six bits, PAD, two latches, UPPER_SHIFT
DecValues == {0, 1, 66, 124, PAD, LATCH_C40, UPPER_SHIFT, LATCH_EDIFACT, UNLATCH, 255}

DecBodies == UNION {[1..n -> DecValues] : n \in 0..MaxDecBody}

DecodeInit ==
    /\ size = "None"
    /\ RSIdle
    /\ PlIdle
    /\ \E head \in DecHeads, body \in DecBodies, checks \in BOOLEAN :
          /\ enc_args = [codewords |-> head \o body, checks |-> checks]
          /\ dec_result = decode_start_in(checks)
    /\ encoder = <<>>
    /\ enc_result = <<>>
    /\ enc_pc = "decoding"

\* decode_parts: while !data.is_empty(), no error returned and no panic
decode_continues(cw, st) == st.err = "None" /\ ~st.panic /\ st.i < Len(cw)

\* decode_parts: one iteration of the loop, the decoder of the mode
DecodeStep ==
    /\ enc_pc = "decoding"
    /\ decode_continues(enc_args.codewords, dec_result)
    /\ dec_result' = decode_mode(enc_args.codewords, dec_result)
    /\ UNCHANGED <<size, enc_args, encoder, enc_result, enc_pc>>
    /\ UNCHANGED <<rsVars, plVars>>

\* decode_parts returns Ok((out, ecis)) or the error, or it has panicked
DecodeReturn ==
    /\ enc_pc = "decoding"
    /\ ~decode_continues(enc_args.codewords, dec_result)
    /\ enc_pc' = "decoded"
    /\ UNCHANGED <<size, enc_args, encoder, enc_result, dec_result>>
    /\ UNCHANGED <<rsVars, plVars>>

SpecDecode == DecodeInit /\ [][DecodeStep \/ DecodeReturn]_vars

\* the iterations of DecodeStep give the state of decode_parts
DecodeStepsAgree ==
    enc_pc = "decoded" =>
        dec_result = decode_parts_from(enc_args.codewords,
                                       decode_start_in(enc_args.checks))

\* C23: decoding the data codewords never panics and no arithmetic operation
\* of it overflows, whatever the codewords are.
C23_NoOverflow == ~dec_result.panic /\ ~dec_result.overflow

\* a C40 pair of value 0 was decoded (both builds end without Ok: a panic or
\* the error of the wrapped tuple)
C23_Witness ==
    /\ enc_pc = "decoded"
    /\ enc_args.codewords = <<LATCH_C40, 0, 0>>
    /\ dec_result.overflow

\* the latch codeword of a mode
latch_of(mode) ==
    CASE mode = "C40" -> 230
      [] mode = "Base256" -> 231
      [] mode = "X12" -> 238
      [] mode = "Text" -> 239
      [] mode = "Edifact" -> 240

\* C24: the decoder starts in Ascii, enters a mode other than Ascii only from
\* Ascii on that mode's latch codeword, and every decoder of another mode that
\* returns Ok hands back to Ascii.
C24_ModeWalk ==
    [][/\ dec_result.i = 0 => dec_result.mode = "Ascii"
       /\ (dec_result'.mode # "Ascii" /\ dec_result'.mode # dec_result.mode) =>
              /\ dec_result.mode = "Ascii"
              /\ dec_result'.i >= 1
              /\ enc_args.codewords[dec_result'.i] = latch_of(dec_result'.mode)
       /\ (dec_result.mode # "Ascii" /\ dec_result' # dec_result
              /\ dec_result'.err = "None" /\ ~dec_result'.panic) =>
              dec_result'.mode = "Ascii"]_vars

\* a run that latched to Edifact, came back to Ascii and latched to C40
C24_Witness ==
    /\ enc_pc = "decoded"
    /\ enc_args.codewords = <<LATCH_EDIFACT, 124, LATCH_C40, UNLATCH>>
    /\ dec_result.err = "None"
    /\ dec_result.mode = "Ascii"
    /\ dec_result.i = 4

\* the codewords start with an ECI of the two-codeword form
eci_two_form(cw) == Len(cw) >= 3 /\ cw[1] = ASCII_ECI /\ cw[2] \in 128..191

\* the codewords start with an ECI of the three-codeword form
eci_three_form(cw) == Len(cw) >= 4 /\ cw[1] = ASCII_ECI /\ cw[2] \in 192..207

\* C30: read_eci rejects with UnexpectedCharacter every second or third value
\* codeword outside 1..=254, in the two- and in the three-codeword form.
C30_EciValuesChecked ==
    enc_pc = "decoded" =>
        /\ (eci_two_form(enc_args.codewords) /\ enc_args.codewords[3] \notin 1..254)
              => (dec_result.err = "UnexpectedCharacter" /\ dec_result.ecis = <<>>)
        /\ (eci_three_form(enc_args.codewords)
              /\ (enc_args.codewords[3] \notin 1..254
                    \/ enc_args.codewords[4] \notin 1..254))
              => (dec_result.err = "UnexpectedCharacter" /\ dec_result.ecis = <<>>)

\* a third value codeword of 255 was read as a value
C30_Witness ==
    /\ enc_pc = "decoded"
    /\ enc_args.codewords = <<ASCII_ECI, 192, 1, 255>>
    /\ dec_result.err = "None"
    /\ dec_result.ecis = << <<0, 16383 + 254>> >>

-----------------------------------------------------------------------------
\* C22: for every received codeword vector of the symbol's length, decode
\* returns Ok or one of its errors; it never panics.
C22_NoPanic == rs_result # "Panic"

\* decode has panicked on a received vector of the length of Square52
C22_Witness ==
    /\ rs_pc = "decoded"
    /\ size = "Square52"
    /\ Len(received) = num_codewords("Square52")
    /\ rs_result = "Panic"

-----------------------------------------------------------------------------
(* GenericDataEncoder::codewords, iteration by iteration of its main loop:  *)
(* encoder is the GenericDataEncoder, enc_result holds no_write_run while   *)
(* the loop runs and the Result once codewords has returned.  enc_args.tie  *)
(* is how sort_unstable_by_key orders plans of equal cost.  The runs start  *)
(* where the loop is entered.                                               *)

\* Base256 runs around the length of two codewords
LoopRuns == {run_bytes(0, n) : n \in {249, 250}}

\* inputs of more than LoopShort bytes are encoded under one policy and one
\* order of equal plans only: the squares with macros for the inputs of
\* LoopMacroEnds, all symbols for the others
LoopShort == 16

\* Edifact, C40, Text and X12 inputs that end at the end of a symbol and near it
LoopEnds ==
    {<<46, 65, 46, 67, 49, 46, 51, 46, 88, 46, 88, 50>> \o tail :
        tail \in {<<>>, <<46>>, <<46, 46>>, <<49, 50>>, <<46, 65, 46>>}}
    \cup {<<65, 73, 77, 65, 73, 77, 65, 73, 77>> \o tail :
        tail \in {<<65>>, <<65, 73>>, <<49, 50>>}}
    \cup {<<97, 105, 109, 97, 105, 109, 97, 105, 109>> \o tail :
        tail \in {<<97>>, <<49, 50>>}}
    \cup {<<13, 42, 62, 13, 42, 62, 13, 42, 62>> \o tail :
        tail \in {<<65>>, <<49, 50>>}}

\* the same between the head and the trailer of a macro, which leaves one
\* codeword more at the end
LoopMacroEnds ==
    {MACRO05_HEAD \o body \o tail \o MACRO_TRAIL :
        body \in {<<97, 105, 109, 97, 105, 109, 97, 105, 109, 97, 105, 109>>,
                  <<13, 42, 62, 13, 42, 62, 13, 42, 62, 13, 42, 62>>,
                  <<46, 65, 46, 67, 49, 46, 51, 46, 88, 46, 88, 50>>},
        tail \in {<<57>>, <<49, 50>>}}

LoopInputs == EncInputs \cup LoopRuns \cup LoopEnds \cup LoopMacroEnds

\* the policies: all symbols, the squares with macros, three symbols with
\* Ascii and Base256 only, the two smallest squares
LoopPolicies ==
    {policy(SymbolList_default, AllModes, FALSE),
     policy(enforce_square(SymbolList_default), AllModes, TRUE),
     policy(with_whitelist({"Rect8x18", "Square12", "Square16"}),
            {"Ascii", "Base256"}, FALSE),
     policy(with_whitelist({"Square10", "Square12"}), AllModes, FALSE)}

\* the policy of the inputs of more than LoopShort bytes
long_policy(data) ==
    IF data \in LoopMacroEnds
    THEN policy(enforce_square(SymbolList_default), AllModes, TRUE)
    ELSE policy(SymbolList_default, AllModes, FALSE)

\* codewords: the checks before the planner
initial_checks(e) ==
    /\ ~e.panic
    /\ e.symbol_list # <<>>
    /\ Len(e.data) <= max_capacity(e.symbol_list)
    /\ upper_limit_for_number_of_codewords(e.symbol_list, Len(e.data)) # -1

\* codewords: planner::optimize(self.data, self.codewords.len(), Ascii, ..)
loop_plan(e, tie) ==
    optimize(e.data, Len(e.codewords), "Ascii", nds_of(e.symbol_list),
             e.enabled_modes, tie)

\* the encoder before the loop
loop_entered(e, plan) == [e EXCEPT !.planned_switches = plan.switches]

\* the encoder e has passed the checks and the planner has returned switches
LoopEntry(e, tie) ==
    /\ initial_checks(e)
    /\ \E plan \in {loop_plan(e, tie)} :
          /\ ~plan.panic
          /\ ~plan.none
          /\ encoder = loop_entered(e, plan)

\* codewords before its loop, for the inputs that pass the checks and that the
\* planner finds switches for
LoopInit ==
    /\ size = "None"
    /\ RSIdle
    /\ PlIdle
    /\ \E data \in LoopInputs, p \in LoopPolicies, tie \in BOOLEAN :
          /\ enc_args = [data |-> data, symbol_list |-> p.symbol_list, eci |-> NoEci,
                         enabled_modes |-> p.enabled_modes,
                         use_macros |-> p.use_macros, tie |-> tie]
          /\ Len(data) > LoopShort =>
                 (p = long_policy(data) /\ ~tie)
          /\ LoopEntry(encode_data_encoder(data, p.symbol_list, NoEci,
                                           p.enabled_modes, p.use_macros), tie)
    /\ enc_result = [no_write_run |-> 0]
    /\ dec_result = <<>>
    /\ enc_pc = "loop"

\* codewords: while self.has_more_characters(), no error returned, no panic
loop_continues(e) == ~halted(e) /\ e.data # <<>>

\* codewords: the body of the loop up to the count of the words written
loop_encoded(e) == encode_mode(take_new_mode(e))

\* codewords: words_written <= 1
loop_wrote_little(e) ==
    Len(loop_encoded(e).codewords) - Len(take_new_mode(e).codewords) <= 1

\* codewords: no_write_run after the iteration
loop_no_write_run(e, no_write_run) ==
    IF halted(loop_encoded(e)) THEN no_write_run
    ELSE IF loop_wrote_little(e) THEN no_write_run + 1
    ELSE 0

\* codewords: panic!("no progress in encoder, this is a bug")
loop_stalled(no_write_run) == no_write_run > 5

\* codewords: one iteration of the loop
LoopStep ==
    /\ enc_pc = "loop"
    /\ loop_continues(encoder)
    /\ enc_result' = [no_write_run |-> loop_no_write_run(encoder, enc_result.no_write_run)]
    /\ encoder' = IF loop_stalled(enc_result'.no_write_run)
                  THEN [loop_encoded(encoder) EXCEPT !.panic = TRUE]
                  ELSE loop_encoded(encoder)
    /\ UNCHANGED <<size, enc_args, dec_result, enc_pc>>
    /\ UNCHANGED <<rsVars, plVars>>

\* codewords: after the loop, symbol_for(0), add_padding and the return
LoopReturn ==
    /\ enc_pc = "loop"
    /\ ~loop_continues(encoder)
    /\ enc_result' = codewords_finish(encoder)
    /\ enc_pc' = "returned"
    /\ UNCHANGED <<size, enc_args, encoder, dec_result>>
    /\ UNCHANGED <<rsVars, plVars>>

LoopNext == LoopStep \/ LoopReturn

SpecLoop == LoopInit /\ [][LoopNext]_vars

\* a call of codewords runs on while it has a step to take: the iterations
\* are the steps of one thread.  This is WF_vars(LoopNext) with
\* ENABLED <<LoopNext>>_vars written out: in the loop LoopStep or LoopReturn
\* is enabled, and both change enc_result
LoopFairness == []<>(enc_pc # "loop") \/ []<><<LoopNext>>_vars

SpecLoopFair == SpecLoop /\ LoopFairness

\* the iterations of LoopStep give the result of encode_data
LoopStepsAgree ==
    enc_pc = "returned" =>
        enc_result = encode_data(enc_args.data, enc_args.symbol_list, enc_args.eci,
                                 enc_args.enabled_modes, enc_args.use_macros,
                                 enc_args.tie)

\* C21: once the initial checks are passed the main loop of the encoder ends
\* and codewords returns codewords or an error: no iteration panics, and every
\* iteration consumes input or changes the mode.
C21_LoopTerminates ==
    /\ [](enc_pc = "loop" => ~encoder.panic)
    /\ [][(enc_pc = "loop" /\ enc_pc' = "loop") =>
              \/ halted(encoder')
              \/ Len(encoder'.data) < Len(encoder.data)
              \/ encoder'.encodation # encoder.encodation]_vars
    /\ [][enc_pc = "loop" /\ enc_pc' = "returned" => ~enc_result'.panic]_vars
    /\ <>(enc_pc = "returned")

\* an Edifact segment ended at the end of the symbol and codewords returned Ok
C21_Witness ==
    /\ enc_pc = "returned"
    /\ enc_args.data = <<46, 65, 46, 67, 49, 46, 51, 46, 88, 46, 88, 50, 46>>
    /\ ~enc_result.panic
    /\ enc_result.err = "None"
    /\ enc_result.codewords = <<240, 184, 27, 131, 198, 236, 238, 98, 230, 50, 47, 129>>

(* The end of the data in C40, Text and X12 (c40::handle_end, x12::encode) *)

\* the character ch is one value of the mode
single_value(mode, ch) ==
    IF mode = "X12" THEN is_native_x12(ch) ELSE in_base_set(mode, ch)

\* what is left of d after its triples
end_rest(d) == SubSeq(d, Len(d) - (Len(d) % 3) + 1, Len(d))

\* the encoder e starts an iteration in C40, Text or X12 on data that is
\* triples of single values and a rest of one ASCII codeword, one character
\* or two digits, and no switch is planned before the rest
end_fits_ascii(e) ==
    /\ e.encodation \in {"C40", "Text", "X12"}
    /\ loop_continues(e)
    /\ Len(e.data) % 3 # 0
    /\ \A k \in 1..Len(e.data) : single_value(e.encodation, e.data[k])
    /\ Len(e.data) % 3 = 2 => two_digits_coming(end_rest(e.data))
    /\ \A k \in 1..Len(e.planned_switches) :
          e.planned_switches[k][1] <= Len(end_rest(e.data))

\* the codewords written once the triples of the data are
pairs_written(e) == Len(take_new_mode(e).codewords) + 2 * (Len(e.data) \div 3)

\* the slots left then in the first symbol with room for one codeword more;
\* -1 without such a symbol
slots_left(e) ==
    IF first_symbol_big_enough_for(e.symbol_list, pairs_written(e) + 1) = "None"
    THEN -1
    ELSE num_data_codewords(
             first_symbol_big_enough_for(e.symbol_list, pairs_written(e) + 1))
         - pairs_written(e)

\* the iteration from e to w has left the rest to ASCII, after an UNLATCH or
\* without one
left_to_ascii(e, w, unlatch) ==
    /\ ~halted(w)
    /\ w.encodation = "Ascii"
    /\ w.data = end_rest(e.data)
    /\ Len(w.codewords) = pairs_written(e) + (IF unlatch THEN 1 ELSE 0)
    /\ unlatch => w.codewords[Len(w.codewords)] = UNLATCH

\* C26: at the end of the data in C40, Text or X12, when what remains fits
\* one ASCII codeword, the encoder goes to ASCII without an UNLATCH if exactly
\* one slot of the symbol remains, and writes an UNLATCH first if two remain
C26_EndWithoutUnlatch ==
    [][(enc_pc = "loop" /\ enc_pc' = "loop" /\ end_fits_ascii(encoder))
       => /\ slots_left(encoder) = 1 => left_to_ascii(encoder, encoder', FALSE)
          /\ slots_left(encoder) = 2 => left_to_ascii(encoder, encoder', TRUE)]_vars

\* "aimaimaima" in Square14: three pairs after the latch to Text, and the
\* last a is left to ASCII in the one slot that remains
C26_Witness ==
    /\ enc_pc = "loop"
    /\ enc_args.data = <<97, 105, 109, 97, 105, 109, 97, 105, 109, 97>>
    /\ encoder.encodation = "Ascii"
    /\ encoder.data = <<97>>
    /\ encoder.codewords = <<239, 91, 11, 91, 11, 91, 11>>

\* the 05 macro with "aimaimaimaim12" in Square16: two slots remain after the
\* four pairs, backup has put the trailer of the macro back in place of the
\* digits, and the UNLATCH is written with the encoder still in Text
C26_WitnessTrailer ==
    /\ enc_pc = "loop"
    /\ enc_args.use_macros
    /\ encoder.input = MACRO05_HEAD
                        \o <<97, 105, 109, 97, 105, 109, 97, 105, 109, 97, 105, 109>>
                        \o <<49, 50>> \o MACRO_TRAIL
    /\ encoder.encodation = "Text"
    /\ encoder.data = MACRO_TRAIL
    /\ encoder.codewords = <<236, 239, 91, 11, 91, 11, 91, 11, 91, 11, UNLATCH>>

\* the same for the inputs that are encoded without macros
C26_WithoutMacro ==
    [][(enc_pc = "loop" /\ enc_pc' = "loop" /\ end_fits_ascii(encoder)
            /\ ~enc_args.use_macros)
       => /\ slots_left(encoder) = 1 => left_to_ascii(encoder, encoder', FALSE)
          /\ slots_left(encoder) = 2 => left_to_ascii(encoder, encoder', TRUE)]_vars

(* The end of the data in Edifact (edifact::handle_end) *)

\* what is left of d after its groups of four characters
edifact_rest(d) == SubSeq(d, Len(d) - (Len(d) % 4) + 1, Len(d))

\* the encoder e starts an iteration in Edifact on data that Edifact encodes,
\* and no switch is planned before the end of the data
edifact_to_end(e) ==
    /\ e.encodation = "Edifact"
    /\ loop_continues(e)
    /\ \A k \in 1..Len(e.data) : is_encodable(e.data[k])
    /\ \A k \in 1..Len(e.planned_switches) : e.planned_switches[k][1] = 0

\* the codewords written once the groups of four of the data are
triples_written(e) == Len(take_new_mode(e).codewords) + 3 * (Len(e.data) \div 4)

\* the slots left in the first symbol with room for n codewords more after
\* the len written; -1 without such a symbol
space_after(symbol_list, len, n) ==
    IF first_symbol_big_enough_for(symbol_list, len + n) = "None" THEN -1
    ELSE num_data_codewords(first_symbol_big_enough_for(symbol_list, len + n)) - len

\* handle_end: the space the rest of the data in ASCII is compared with
edifact_space(e) ==
    space_after(e.symbol_list, triples_written(e),
                encoding_size(edifact_rest(e.data)))

\* the iteration from e to w has written the rest of the data without the
\* UNLATCH value: nothing after the groups of four, or the one or two values
\* of the rest alone
left_without_unlatch(e, w) ==
    \/ Len(w.codewords) = triples_written(e)
    \/ /\ Len(e.data) % 4 \in 1..2
       /\ Len(w.codewords) = triples_written(e) + (Len(e.data) % 4)

\* the codewords that remain in the symbol after the ones Edifact has written
\* in w, the symbol being the one that what is left of the data fits in
edifact_remaining(w) ==
    space_after(w.symbol_list, Len(w.codewords), encoding_size(w.data))

\* C27: when at most four characters remain in Edifact and they encode to at
\* most two ASCII codewords that fit in what is left of the symbol, the
\* encoder leaves Edifact and encodes them as ASCII with no UNLATCH; and it
\* leaves Edifact without an UNLATCH only when at most two codewords remain
\* in the symbol, the case in which the decoder reads them as ASCII
C27_EdifactEnd ==
    [][(enc_pc = "loop" /\ enc_pc' = "loop" /\ edifact_to_end(encoder))
       => /\ (encoding_size(edifact_rest(encoder.data)) <= 2
                 /\ edifact_space(encoder) \in 0..2)
             => /\ ~halted(encoder')
                /\ encoder'.encodation = "Ascii"
                /\ encoder'.data = edifact_rest(encoder.data)
                /\ Len(encoder'.codewords) = triples_written(encoder)
          /\ (~halted(encoder') /\ left_without_unlatch(encoder, encoder'))
             => edifact_remaining(encoder') \in 0..2]_vars

\* the 05 macro with ".A.C1.3.X.X212" in Square16: one slot remains after the
\* nine codewords of Edifact, "12" is left to ASCII and backup has put the
\* trailer of the macro in its place
C27_WitnessTrailer ==
    /\ enc_pc = "loop"
    /\ enc_args.use_macros
    /\ encoder.input = MACRO05_HEAD
                        \o <<46, 65, 46, 67, 49, 46, 51, 46, 88, 46, 88, 50>>
                        \o <<49, 50>> \o MACRO_TRAIL
    /\ encoder.encodation = "Ascii"
    /\ encoder.data = MACRO_TRAIL
    /\ Len(encoder.codewords) = 11
    /\ encoder.codewords[2] = LATCH_EDIFACT

\* the same for the inputs that are encoded without macros
C27_WithoutMacro ==
    [][(enc_pc = "loop" /\ enc_pc' = "loop" /\ edifact_to_end(encoder)
            /\ ~enc_args.use_macros)
       => /\ (encoding_size(edifact_rest(encoder.data)) <= 2
                 /\ edifact_space(encoder) \in 0..2)
             => /\ ~halted(encoder')
                /\ encoder'.encodation = "Ascii"
                /\ encoder'.data = edifact_rest(encoder.data)
                /\ Len(encoder'.codewords) = triples_written(encoder)
          /\ (~halted(encoder') /\ left_without_unlatch(encoder, encoder'))
             => edifact_remaining(encoder') \in 0..2]_vars

\* ".A.C1.3.X.X2." in Square16: the last '.' is left to ASCII in the one slot
\* that remains
C27_Witness ==
    /\ enc_pc = "loop"
    /\ ~enc_args.use_macros
    /\ enc_args.data = <<46, 65, 46, 67, 49, 46, 51, 46, 88, 46, 88, 50, 46>>
    /\ encoder.encodation = "Ascii"
    /\ encoder.data = <<46>>
    /\ encoder.codewords = <<240, 184, 27, 131, 198, 236, 238, 98, 230, 50>>

-----------------------------------------------------------------------------
(* GenericDataEncoder::codewords under sets of enabled modes: the loop of   *)
(* SpecLoop on short inputs, for the sets of one mode, of Ascii and one     *)
(* mode, of all modes but one, and of all modes.                            *)

\* inputs of up to MaxModesLen bytes of PlanBytes are tried
MaxModesLen == 2

\* longer inputs, one for each mode other than Ascii: C40 and X12, Text,
\* Edifact, Base256
ModesTexts ==
    {<<65, 73, 77, 65, 73, 77, 65, 73, 77, 65>>,
     <<97, 105, 109, 97, 105, 109, 97>>,
     <<46, 65, 46, 67, 49, 46, 51, 46, 88>>,
     <<171, 228, 246, 252, 233, 187, 200>>}

ModesInputs ==
    {Vec(d) : d \in UNION {[1..n -> PlanBytes] : n \in 0..MaxModesLen}}
        \cup ModesTexts

\* the sets of enabled modes
ModesSets ==
    {{m} : m \in AllModes} \cup {{"Ascii", m} : m \in AllModes}
        \cup {AllModes \ {m} : m \in AllModes} \cup {AllModes}

\* codewords before its loop, for the inputs that pass the checks and that the
\* planner finds switches for
ModesInit ==
    /\ size = "None"
    /\ RSIdle
    /\ PlIdle
    /\ \E data \in ModesInputs, modes \in ModesSets, tie \in BOOLEAN :
          /\ enc_args = [data |-> data, symbol_list |-> SymbolList_default,
                         eci |-> NoEci, enabled_modes |-> modes,
                         use_macros |-> FALSE, tie |-> tie]
          /\ LoopEntry(encode_data_encoder(data, SymbolList_default, NoEci, modes,
                                           FALSE), tie)
    /\ enc_result = [no_write_run |-> 0]
    /\ dec_result = <<>>
    /\ enc_pc = "loop"

SpecModes == ModesInit /\ [][LoopNext]_vars

\* the modes the decoder is in while it reads the codewords cw from st on
RECURSIVE modes_read(_, _)
modes_read(cw, st) ==
    IF decode_continues(cw, st) THEN {st.mode} \cup modes_read(cw, decode_mode(cw, st))
    ELSE {st.mode}

\* the planned switches are the ones set_ascii_until_end leaves
ascii_until_end(e) == e.planned_switches = <<<<0, "Ascii">>>>

\* the loop is entered with the switches of the planner: nothing is written
\* and no latch is due
at_entry(e) == e.codewords = <<>> /\ e.new_mode = -1 /\ e.data = e.input

C28_WitnessAsciiEnd ==
    /\ enc_pc = "loop"
    /\ "Ascii" \notin enc_args.enabled_modes
    /\ encoder.encodation = "Ascii"
    /\ encoder.codewords # <<>>
    /\ encoder.data # <<>>

-----------------------------------------------------------------------------
(* The outline of a bitmap, placement/path.rs: Bitmap::path, the graph of   *)
(* the edges between modules and its decomposition into circuits.  A        *)
(* position is [i, j, dir]; a node is <<i, j>>; the edges of the graph are  *)
(* the Vec of [left, top], cell (i, j) at index i * (width + 1) + j.        *)

\* Direction::flip
Direction_flip(dir) ==
    CASE dir = "Up" -> "Down"
      [] dir = "Down" -> "Up"
      [] dir = "Right" -> "Left"
      [] dir = "Left" -> "Right"

\* Position::end_node
end_node(pos) ==
    CASE pos.dir \in {"Up", "Left"} -> <<pos.i, pos.j>>
      [] pos.dir = "Down" -> <<pos.i + 1, pos.j>>
      [] pos.dir = "Right" -> <<pos.i, pos.j + 1>>

\* Position::flip
Position_flip(pos) == [pos EXCEPT !.dir = Direction_flip(pos.dir)]

\* Position::start_node
start_node(pos) == end_node(Position_flip(pos))

\* Position::straight
Position_straight(pos) ==
    CASE pos.dir = "Up" -> [i |-> pos.i - 1, j |-> pos.j, dir |-> pos.dir]
      [] pos.dir = "Down" -> [i |-> pos.i + 1, j |-> pos.j, dir |-> pos.dir]
      [] pos.dir = "Right" -> [i |-> pos.i, j |-> pos.j + 1, dir |-> pos.dir]
      [] pos.dir = "Left" -> [i |-> pos.i, j |-> pos.j - 1, dir |-> pos.dir]

\* Position::left
Position_left(pos) ==
    CASE pos.dir = "Up" -> [i |-> pos.i, j |-> pos.j - 1, dir |-> "Left"]
      [] pos.dir = "Down" -> [i |-> pos.i + 1, j |-> pos.j, dir |-> "Right"]
      [] pos.dir = "Right" -> [i |-> pos.i - 1, j |-> pos.j + 1, dir |-> "Up"]
      [] pos.dir = "Left" -> [i |-> pos.i, j |-> pos.j, dir |-> "Down"]

\* Position::right
Position_right(pos) ==
    CASE pos.dir = "Up" -> [i |-> pos.i, j |-> pos.j, dir |-> "Right"]
      [] pos.dir = "Down" -> [i |-> pos.i + 1, j |-> pos.j - 1, dir |-> "Left"]
      [] pos.dir = "Right" -> [i |-> pos.i, j |-> pos.j + 1, dir |-> "Down"]
      [] pos.dir = "Left" -> [i |-> pos.i - 1, j |-> pos.j, dir |-> "Up"]

\* Option<Position>::None
NoPosition == [i |-> 0, j |-> 0, dir |-> "None"]

\* Graph::has_cell
has_cell(g, i, j) == i \in 0..g.height /\ j \in 0..g.width

\* the index of cell (i, j) in edges, counted from 1
cell_index(g, i, j) == i * (g.width + 1) + j + 1

\* Graph::left
Graph_left(g, i, j) == has_cell(g, i, j) /\ g.edges[cell_index(g, i, j)].left

\* Graph::top
Graph_top(g, i, j) == has_cell(g, i, j) /\ g.edges[cell_index(g, i, j)].top

\* Graph::has_edge
has_edge(g, pos) ==
    IF pos.dir \in {"Left", "Right"} THEN Graph_top(g, pos.i, pos.j)
    ELSE Graph_left(g, pos.i, pos.j)

\* Graph::can_step: the position, or NoPosition
can_step(g, pos) ==
    IF has_edge(g, Position_straight(pos)) THEN Position_straight(pos)
    ELSE IF has_edge(g, Position_left(pos)) THEN Position_left(pos)
    ELSE IF has_edge(g, Position_right(pos)) THEN Position_right(pos)
    ELSE NoPosition

\* follow without the step to the right
follow_tries_ahead(pos) == <<Position_straight(pos), Position_left(pos)>>

\* the steps follow tries, in its order
follow_tries(pos) == <<Position_straight(pos), Position_left(pos), Position_right(pos)>>

\* Graph::follow: (found, alternatives), found NoPosition for None
follow(g, pos) ==
    [found |-> IF \E k \in 1..Len(follow_tries(pos)) : has_edge(g, follow_tries(pos)[k])
               THEN follow_tries(pos)[
                        SetMin({k \in 1..Len(follow_tries(pos)) :
                                    has_edge(g, follow_tries(pos)[k])})]
               ELSE NoPosition,
     alternatives |->
        Cardinality({k \in 1..Len(follow_tries(pos)) :
                        has_edge(g, follow_tries(pos)[k])}) >= 2]

\* Graph::remove_top
remove_top(g, i, j) ==
    IF has_cell(g, i, j) THEN [g EXCEPT !.edges[cell_index(g, i, j)].top = FALSE]
    ELSE g

\* Graph::remove_left
remove_left(g, i, j) ==
    IF has_cell(g, i, j) THEN [g EXCEPT !.edges[cell_index(g, i, j)].left = FALSE]
    ELSE g

\* Graph::remove_edge: the graph afterwards
remove_edge(g, pos) ==
    IF pos.dir \in {"Left", "Right"} THEN remove_top(g, pos.i, pos.j)
    ELSE remove_left(g, pos.i, pos.j)

\* Graph::edge_left: the indices (from 0) from the hint on with an edge
edges_from_hint(g) ==
    {at \in g.edge_hint..(Len(g.edges) - 1) :
        g.edges[at + 1].left \/ g.edges[at + 1].top}

\* Graph::edge_left: the position at index at (from 0)
position_at(g, at) ==
    [i |-> at \div (g.width + 1), j |-> at % (g.width + 1),
     dir |-> IF g.edges[at + 1].top THEN "Right" ELSE "Up"]

\* Graph::edge_left: the position or NoPosition, and the graph with its hint
edge_left(g) ==
    IF edges_from_hint(g) = {}
    THEN [pos |-> NoPosition, graph |-> [g EXCEPT !.edge_hint = Len(g.edges)]]
    ELSE [pos |-> position_at(g, SetMin(edges_from_hint(g))),
          graph |-> [g EXCEPT !.edge_hint = SetMin(edges_from_hint(g))]]

\* i16::MAX, the bound of N
N_MAX == 32767

\* bits_to_edge_graph: the edges of the set module of row i, column j
module_edges(edges, bits, width, height, i, j) ==
    [c \in 1..Len(edges) |->
        [left |-> \/ edges[c].left
                  \/ c = i * (width + 1) + j + 1 /\ (j = 0 \/ ~bits[i * width + j])
                  \/ /\ c = i * (width + 1) + j + 2
                     /\ (j = width - 1 \/ ~bits[i * width + j + 2]),
         top |-> \/ edges[c].top
                 \/ c = i * (width + 1) + j + 1 /\ (i = 0 \/ ~bits[i * width + j + 1 - width])
                 \/ /\ c = i * (width + 1) + j + 1 + (width + 1)
                    /\ (i = height - 1 \/ ~bits[i * width + j + 1 + width])]]

\* bits_to_edge_graph: for i in 0..height, for j in 0..width, the module at
\* index at (from 0) of bits
edges_of_bits(bits, width, height) ==
    ForLoop(LAMBDA edges, at :
                IF bits[at + 1]
                THEN Vec(module_edges(edges, bits, width, height,
                                      at \div width, at % width))
                ELSE edges,
            0, width * height - 1,
            Repeat([left |-> FALSE, top |-> FALSE], (width + 1) * (height + 1)))

\* bits_to_edge_graph: edge_hint, the cell of the first set module
first_hint(bits, width, height) ==
    IF \E at \in 0..(width * height - 1) : bits[at + 1]
    THEN (SetMin({at \in 0..(width * height - 1) : bits[at + 1]}) \div width) * (width + 1)
         + (SetMin({at \in 0..(width * height - 1) : bits[at + 1]}) % width)
    ELSE (width + 1) * (height + 1)

\* bits_to_edge_graph
bits_to_edge_graph(bits, width, height) ==
    [edges |-> edges_of_bits(bits, width, height), width |-> width, height |-> height,
     edge_hint |-> first_hint(bits, width, height),
     panic |-> width + 1 > N_MAX \/ height + 1 > N_MAX]

\* Bitmap::height
Bitmap_height(bm) == Len(bm.bits) \div bm.width

\* Bitmap::path up to the loops: the graph and the first position; phase
\* "empty" is the return of vec![]
path_start(bm) ==
    [graph |-> edge_left(bits_to_edge_graph(bm.bits, bm.width, Bitmap_height(bm))).graph,
     pos |-> edge_left(bits_to_edge_graph(bm.bits, bm.width, Bitmap_height(bm))).pos,
     start |-> <<0, 0>>,
     elements |-> <<>>, alternatives |-> <<>>, insert |-> 0,
     local_loop |-> <<>>, insert_pos |-> 0,
     phase |-> IF edge_left(bits_to_edge_graph(bm.bits, bm.width,
                                               Bitmap_height(bm))).pos = NoPosition
               THEN "empty" ELSE "euler",
     panic |-> bits_to_edge_graph(bm.bits, bm.width, Bitmap_height(bm)).panic]

\* MicroStep::Step and MicroStep::Jump
MicroStep(kind, node) == [kind |-> kind, node |-> node]

\* path: the top of 'euler, up to the loop of the walk
path_begin(t) ==
    [t EXCEPT !.insert_pos = t.insert,
              !.graph = remove_edge(t.graph, t.pos),
              !.start = start_node(t.pos),
              !.local_loop = <<MicroStep("Step", end_node(t.pos))>>,
              !.insert = t.insert + 1,
              !.phase = "walk"]

\* path: the alternatives after graph.follow(&pos)
path_alternatives(t) ==
    IF follow(t.graph, t.pos).alternatives
    THEN Append(t.alternatives, <<t.insert, t.pos>>)
    ELSE t.alternatives

\* path: one round of the walk, new_pos found
path_step(t, new_pos) ==
    [t EXCEPT !.alternatives = path_alternatives(t),
              !.pos = new_pos,
              !.graph = remove_edge(t.graph, new_pos),
              !.local_loop = Append(t.local_loop, MicroStep("Step", end_node(new_pos))),
              !.insert = IF end_node(new_pos) = t.start THEN t.insert ELSE t.insert + 1,
              !.phase = IF end_node(new_pos) = t.start THEN "closed" ELSE "walk"]

\* path: one round of the walk; expect("must exist because `pos` was valid")
path_walk(t) ==
    IF follow(t.graph, t.pos).found = NoPosition
    THEN [t EXCEPT !.alternatives = path_alternatives(t), !.panic = TRUE]
    ELSE path_step(t, follow(t.graph, t.pos).found)

\* elements.splice(insert_pos..insert_pos, local_loop.drain(..)); the range
\* has to lie in elements
path_splice(t) ==
    IF t.insert_pos > Len(t.elements) THEN [t EXCEPT !.panic = TRUE]
    ELSE [t EXCEPT !.elements = SubSeq(t.elements, 1, t.insert_pos) \o t.local_loop
                                    \o SubSeq(t.elements, t.insert_pos + 1,
                                              Len(t.elements)),
                   !.local_loop = <<>>]

\* path: the alternatives that an edge is left at
open_alternatives(t) ==
    {k \in 1..Len(t.alternatives) : can_step(t.graph, t.alternatives[k][2]) # NoPosition}

\* path: continue 'euler at the first alternative with an edge left; the
\* drain empties alternatives
path_continue(t) ==
    [t EXCEPT !.pos = can_step(t.graph, t.alternatives[SetMin(open_alternatives(t))][2]),
              !.insert = t.alternatives[SetMin(open_alternatives(t))][1],
              !.alternatives = <<>>,
              !.phase = "euler"]

\* path: a new tour at the edge that graph.edge_left() has found, or the end
path_jump(t, left) ==
    IF left.pos = NoPosition
    THEN [t EXCEPT !.graph = left.graph, !.alternatives = <<>>, !.phase = "done"]
    ELSE [t EXCEPT !.graph = left.graph,
                   !.alternatives = <<>>,
                   !.elements = Append(t.elements,
                                       MicroStep("Jump", start_node(left.pos))),
                   !.pos = left.pos,
                   !.insert = Len(t.elements) + 1,
                   !.phase = "euler"]

\* path: after the walk, from the splice on
path_closed(t) ==
    IF path_splice(t).panic THEN path_splice(t)
    ELSE IF open_alternatives(path_splice(t)) # {} THEN path_continue(path_splice(t))
    ELSE path_jump(path_splice(t), edge_left(path_splice(t).graph))

\* PathSegment: Move(a, b), Horizontal(a), Vertical(a), Close; "None" is
\* the None of step_wip
PathSegment(seg, a, b) == [seg |-> seg, a |-> a, b |-> b]

\* compress_path: the state after one micro step
compress_step(c, ms) ==
    IF ms.kind = "Jump"
    THEN [steps |-> c.steps \o <<PathSegment("Close", 0, 0),
                                 PathSegment("Move", ms.node[2] - c.pos[2],
                                             ms.node[1] - c.pos[1])>>,
          wip |-> PathSegment("None", 0, 0), pos |-> ms.node]
    ELSE IF c.wip.seg = "Horizontal" /\ ms.node[1] = c.pos[1]
    THEN [c EXCEPT !.wip = PathSegment("Horizontal", c.wip.a + (ms.node[2] - c.pos[2]), 0),
                   !.pos = ms.node]
    ELSE IF c.wip.seg = "Vertical" /\ ms.node[2] = c.pos[2]
    THEN [c EXCEPT !.wip = PathSegment("Vertical", c.wip.a + (ms.node[1] - c.pos[1]), 0),
                   !.pos = ms.node]
    ELSE [steps |-> IF c.wip.seg = "None" THEN c.steps ELSE Append(c.steps, c.wip),
          wip |-> IF ms.node[1] = c.pos[1]
                  THEN PathSegment("Horizontal", ms.node[2] - c.pos[2], 0)
                  ELSE PathSegment("Vertical", ms.node[1] - c.pos[1], 0),
          pos |-> ms.node]

\* compress_path
compress_path(micro_steps) ==
    Append(ForLoop(LAMBDA c, k : compress_step(c, micro_steps[k]), 1, Len(micro_steps),
                   [steps |-> <<>>, wip |-> PathSegment("None", 0, 0),
                    pos |-> <<0, 0>>]).steps,
           PathSegment("Close", 0, 0))

\* bitmaps of up to MaxPathHeight rows of up to MaxPathWidth modules
MaxPathWidth == 3

MaxPathHeight == 3

bitmaps_of_width(w) ==
    {[width |-> w, bits |-> Vec(bits)] :
        bits \in UNION {[1..(w * h) -> BOOLEAN] : h \in 0..MaxPathHeight}}

PathBitmaps == UNION {bitmaps_of_width(w) : w \in 1..MaxPathWidth}

\* bitmap.path() is called; pl_trav is the state of path
PathInit ==
    /\ size = "None"
    /\ RSIdle
    /\ EncIdle
    /\ pl_data = <<>>
    /\ pl_map = <<>>
    /\ pl_bitmap \in PathBitmaps
    /\ pl_trav = path_start(pl_bitmap)
    /\ pl_report = <<>>
    /\ pl_pc = "tracing"

\* path has not returned and has not panicked
path_runs(t) == ~t.panic /\ t.phase \in {"euler", "walk", "closed"}

\* path: one step of its loops
PathStep ==
    /\ pl_pc = "tracing"
    /\ path_runs(pl_trav)
    /\ pl_trav' = CASE pl_trav.phase = "euler" -> path_begin(pl_trav)
                    [] pl_trav.phase = "walk" -> path_walk(pl_trav)
                    [] pl_trav.phase = "closed" -> path_closed(pl_trav)
    /\ UNCHANGED <<size, pl_data, pl_map, pl_bitmap, pl_report, pl_pc>>
    /\ UNCHANGED <<rsVars, encVars>>

\* path returns vec![] or compress_path(elements), or it has panicked
PathReturn ==
    /\ pl_pc = "tracing"
    /\ ~path_runs(pl_trav)
    /\ pl_report' = [panic |-> pl_trav.panic,
                      segments |-> IF pl_trav.panic \/ pl_trav.phase = "empty" THEN <<>>
                                   ELSE compress_path(pl_trav.elements)]
    /\ pl_pc' = "traced"
    /\ UNCHANGED <<size, pl_data, pl_trav, pl_map, pl_bitmap>>
    /\ UNCHANGED <<rsVars, encVars>>

PathNext == PathStep \/ PathReturn

SpecPath == PathInit /\ [][PathNext]_vars

\* a call of path runs on while it has a step to take: this is
\* WF_vars(PathNext) with ENABLED <<PathNext>>_vars written out, PathStep or
\* PathReturn being enabled exactly while pl_pc = "tracing"
PathFairness == []<>(pl_pc # "tracing") \/ []<><<PathNext>>_vars

SpecPathFair == SpecPath /\ PathFairness

\* the module of row i, column j of the bitmap is set; outside of the bitmap
\* no module is
module_set(bm, i, j) ==
    /\ i \in 0..(Bitmap_height(bm) - 1)
    /\ j \in 0..(bm.width - 1)
    /\ bm.bits[i * bm.width + j + 1]

\* the edges between a set and an unset module: <<"left", i, j>> is the edge
\* from node (i, j) to node (i + 1, j), <<"top", i, j>> the one from node
\* (i, j) to node (i, j + 1)
boundary_edges(bm) ==
    {e \in {"left"} \X (0..(Bitmap_height(bm) - 1)) \X (0..bm.width) :
        module_set(bm, e[2], e[3] - 1) # module_set(bm, e[2], e[3])}
    \cup
    {e \in {"top"} \X (0..Bitmap_height(bm)) \X (0..(bm.width - 1)) :
        module_set(bm, e[2] - 1, e[3]) # module_set(bm, e[2], e[3])}

\* the edges that are left in the graph
graph_edges(g) ==
    {e \in {"left"} \X (0..g.height) \X (0..g.width) : Graph_left(g, e[2], e[3])}
    \cup
    {e \in {"top"} \X (0..g.height) \X (0..g.width) : Graph_top(g, e[2], e[3])}

\* the edge between the nodes a and b, <<"none", 0, 0>> if they are not
\* neighbours
edge_between(a, b) ==
    IF a[1] = b[1] /\ (a[2] = b[2] + 1 \/ b[2] = a[2] + 1)
    THEN <<"top", a[1], IF a[2] < b[2] THEN a[2] ELSE b[2]>>
    ELSE IF a[2] = b[2] /\ (a[1] = b[1] + 1 \/ b[1] = a[1] + 1)
    THEN <<"left", IF a[1] < b[1] THEN a[1] ELSE b[1], a[2]>>
    ELSE <<"none", 0, 0>>

\* the node the path is at before its k-th micro step; it starts at origin
node_before(elements, origin, k) == IF k = 1 THEN origin ELSE elements[k - 1].node

\* the micro steps that draw
drawn(elements) == {k \in 1..Len(elements) : elements[k].kind = "Step"}

\* the edge the k-th micro step draws
edge_drawn(elements, origin, k) ==
    edge_between(node_before(elements, origin, k), elements[k].node)

\* the node the circuit of the k-th micro step begins at: the last jump, or
\* the origin
circuit_start(elements, origin, k) ==
    IF \E l \in 1..k : elements[l].kind = "Jump"
    THEN elements[SetMax({l \in 1..k : elements[l].kind = "Jump"})].node
    ELSE origin

\* the micro steps that end a circuit
circuit_ends(elements) ==
    {k \in drawn(elements) : k = Len(elements) \/ elements[k + 1].kind = "Jump"}

\* the number of edges of the graph at the node (i, j)
degree(g, i, j) ==
    Cardinality({e \in {<<"left", i, j>>, <<"left", i - 1, j>>,
                         <<"top", i, j>>, <<"top", i, j - 1>>} :
                    e \in graph_edges(g)})

\* the nodes of the graph of odd degree
odd_nodes(g) ==
    {n \in (0..g.height) \X (0..g.width) : degree(g, n[1], n[2]) % 2 = 1}

\* the node the path of the bitmap starts at
path_origin(bm) == start_node(path_start(bm).pos)

\* the path of the bitmap bm in elements draws every boundary edge exactly
\* once and every circuit of it ends where it began
path_is_outline(bm, elements) ==
    /\ \A k \in drawn(elements) :
          edge_drawn(elements, path_origin(bm), k) \in boundary_edges(bm)
    /\ \A k, l \in drawn(elements) :
          k # l => edge_drawn(elements, path_origin(bm), k)
                       # edge_drawn(elements, path_origin(bm), l)
    /\ Cardinality(drawn(elements)) = Cardinality(boundary_edges(bm))
    /\ \A k \in circuit_ends(elements) :
          elements[k].node = circuit_start(elements, path_origin(bm), k)

\* the state of path while it runs: no expectation has failed, the graph
\* holds boundary edges only, its nodes have even degree between the walks
\* and during a walk all but the node where the walk began and the node it is
\* at, and a walk that has closed is back at its start
path_invariant(bm, t) ==
    /\ ~t.panic
    /\ graph_edges(t.graph) \subseteq boundary_edges(bm)
    /\ t.phase \in {"empty", "euler", "closed", "done"} => odd_nodes(t.graph) = {}
    /\ t.phase = "walk" => odd_nodes(t.graph) = {t.start, end_node(t.pos)}
    /\ t.phase = "closed" => end_node(t.pos) = t.start
    /\ t.phase \in {"empty", "done"} => graph_edges(t.graph) = {}
    /\ t.phase = "empty" => boundary_edges(bm) = {}

\* C29: for every bitmap the tracing of the outline terminates having used
\* every boundary edge between a set and an unset module exactly once; every
\* circuit returns to the node it started at, and during a walk a next edge
\* always exists because every node of the boundary graph has even degree
C29_OutlineTraced ==
    /\ [](pl_pc = "tracing" => path_invariant(pl_bitmap, pl_trav))
    /\ [](pl_pc = "traced" =>
              /\ ~pl_report.panic
              /\ path_is_outline(pl_bitmap, pl_trav.elements))
    /\ <>(pl_pc = "traced")

\* the two modules of a diagonal: the node in the middle has four edges, the
\* walk has had an alternative there and the path is one tour of eight edges
C29_Witness ==
    /\ pl_pc = "traced"
    /\ pl_bitmap = [width |-> 2, bits |-> <<TRUE, FALSE, FALSE, TRUE>>]
    /\ ~pl_report.panic
    /\ Len(pl_trav.elements) = 8
    /\ \A k \in 1..8 : pl_trav.elements[k].kind = "Step"

\* a bitmap of two tours: the path jumps
C29_WitnessJump ==
    /\ pl_pc = "traced"
    /\ pl_bitmap = [width |-> 3, bits |-> <<TRUE, FALSE, TRUE>>]
    /\ ~pl_report.panic
    /\ Len(pl_trav.elements) = 9
    /\ pl_trav.elements[5].kind = "Jump"

-----------------------------------------------------------------------------
(* The pruning of the planner: optimize is run round by round on an input,  *)
(* and the list of plans a round has made is kept next to the list that     *)
(* remove_hopeless_cases has left of it.                                    *)

\* inputs of up to MaxPruneLen bytes are planned
MaxPruneLen == 3

PruneInputs == UNION {[1..n -> PlanBytes] : n \in 1..MaxPruneLen}

\* the state of optimize before the round iteration
prune_state(plans, iteration, grown, pruned, done, out, tie) ==
    [plans |-> plans, iteration |-> iteration, grown |-> grown, pruned |-> pruned,
     done |-> done, out |-> out, tie |-> tie]

\* optimize is called at the start of the encoding: the mode is Ascii,
\* nothing is written
PruneInit ==
    /\ size = "None"
    /\ RSIdle
    /\ PlIdle
    /\ \E data \in PruneInputs :
          enc_args = [data |-> Vec(data), symbol_list |-> SymbolList_default,
                      eci |-> NoEci, enabled_modes |-> AllModes, use_macros |-> FALSE]
    /\ \E tie \in BOOLEAN :
          encoder = prune_state(
              start_plans("Ascii", 0, enc_args.enabled_modes, enc_args.data,
                          nds_of(enc_args.symbol_list)).list,
              0, <<>>, <<>>, FALSE, planner_panic, tie)
    /\ enc_result = <<>>
    /\ dec_result = <<>>
    /\ enc_pc = "planning"

\* optimize: the plans of the round of e, before the pruning
prune_round(e) ==
    round_plans(e.plans, 1, [list |-> <<>>, panic |-> FALSE, at_end |-> FALSE],
                Len(enc_args.data) - e.iteration, e.iteration = 0,
                enc_args.enabled_modes, enc_args.data, nds_of(enc_args.symbol_list))

\* optimize: the list remove_hopeless_cases leaves in the round of e
prune_pruned(e) ==
    IF prune_round(e).panic THEN <<>>
    ELSE remove_hopeless_cases(prune_round(e).list, enc_args.data,
                               nds_of(enc_args.symbol_list), e.tie)

\* optimize: the state after the round of e
prune_next(e) ==
    optimize_pruning(prune_round(e), 0, enc_args.data, nds_of(enc_args.symbol_list),
                     e.tie)

\* one round of the loop of optimize, the pruning included
PruneRound ==
    /\ enc_pc = "planning"
    /\ ~encoder.done
    /\ encoder.iteration <= Len(enc_args.data)
    /\ encoder' = prune_state(prune_next(encoder).plans, encoder.iteration + 1,
                              prune_round(encoder).list, prune_pruned(encoder),
                              prune_next(encoder).done, prune_next(encoder).out,
                              encoder.tie)
    /\ UNCHANGED <<size, enc_args, enc_result, dec_result, enc_pc>>
    /\ UNCHANGED <<rsVars, plVars>>

\* optimize returns
PruneReturn ==
    /\ enc_pc = "planning"
    /\ encoder.done \/ encoder.iteration > Len(enc_args.data)
    /\ enc_result' = IF encoder.done THEN encoder.out ELSE planner_panic
    /\ enc_pc' = "planned"
    /\ UNCHANGED <<size, enc_args, encoder, dec_result>>
    /\ UNCHANGED <<rsVars, plVars>>

PruneNext == PruneRound \/ PruneReturn

SpecPrune == PruneInit /\ [][PruneNext]_vars

\* the cost of the plan p of the round
prune_cost(p) == plan_cost(p, enc_args.data, nds_of(enc_args.symbol_list))

\* the cost of the plan a after a switch to the mode of b; -1 if a can not
\* switch
prune_switch_cost(a, b) ==
    cost_for_switching_to(a, b.mode, enc_args.data, nds_of(enc_args.symbol_list))

\* a pruning has happened in the state
pruned_round == enc_pc = "planning" /\ encoder.iteration > 0 /\ encoder.grown # <<>>

\* for each pair (starting mode, current mode) of the round one plan is kept
\* at most, a cheapest one
cheapest_of_pair(grown, pruned) ==
    /\ \A k, l \in 1..Len(pruned) :
          (pruned[k].start = pruned[l].start /\ pruned[k].mode = pruned[l].mode) => k = l
    /\ \A k \in 1..Len(pruned) : \A g \in 1..Len(grown) :
          (grown[g].start = pruned[k].start /\ grown[g].mode = pruned[k].mode)
              => prune_cost(pruned[k]) <= prune_cost(grown[g])
    /\ \A k \in 1..Len(pruned) : \E g \in 1..Len(grown) : grown[g] = pruned[k]

\* the plan a makes the plan b hopeless: its cost with the switch to the
\* mode of b is lower than or equal to the cost of b
hopeless_by(a, b) ==
    /\ prune_switch_cost(a, b) # -1
    /\ prune_switch_cost(a, b) <= prune_cost(b)

\* the plan a is cheaper than b even after the switch to the mode of b
beaten_by(a, b) ==
    /\ prune_switch_cost(a, b) # -1
    /\ prune_switch_cost(a, b) < prune_cost(b)

\* C25: after the pruning step only the cheapest plan is left for each pair
\* (starting mode, current mode), and no plan B is left for which some other
\* plan A that is left has a cost, the switch to the current mode of B
\* included, lower than or equal to the cost of B
C25_PruningDiscards ==
    pruned_round =>
        /\ cheapest_of_pair(encoder.grown, encoder.pruned)
        /\ \A a, b \in 1..Len(encoder.pruned) :
              a # b => ~hopeless_by(encoder.pruned[a], encoder.pruned[b])

\* the same for the cheapest plan as A only
C25_FirstLowerOrEqual ==
    pruned_round =>
        \A b \in 2..Len(encoder.pruned) :
            ~hopeless_by(encoder.pruned[1], encoder.pruned[b])

\* the same for a strictly lower cost
C25_SomeLower ==
    pruned_round =>
        \A a, b \in 1..Len(encoder.pruned) :
            a # b => ~beaten_by(encoder.pruned[a], encoder.pruned[b])

\* what the pruning does: the cheapest plan of each pair is kept, and of
\* these no plan is left that the cheapest plan which can switch beats
C25_FirstLower ==
    pruned_round =>
        /\ cheapest_of_pair(encoder.grown, encoder.pruned)
        /\ \A a \in 1..Len(encoder.pruned) :
              (/\ \A c \in 1..(a - 1) :
                     \E b \in 1..Len(encoder.pruned) :
                        prune_switch_cost(encoder.pruned[c], encoder.pruned[b]) = -1
               /\ \A b \in 1..Len(encoder.pruned) :
                     prune_switch_cost(encoder.pruned[a], encoder.pruned[b]) # -1)
              => \A b \in (a + 1)..Len(encoder.pruned) :
                    ~beaten_by(encoder.pruned[a], encoder.pruned[b])

\* a round in which the pruning has discarded a plan of a pair of its own
C25_Witness ==
    /\ pruned_round
    /\ \E g \in 1..Len(encoder.grown) :
          /\ \A k \in 1..Len(encoder.pruned) :
                ~(encoder.pruned[k].start = encoder.grown[g].start
                  /\ encoder.pruned[k].mode = encoder.grown[g].mode)
          /\ beaten_by(encoder.pruned[1], encoder.grown[g])

=============================================================================
